---- MODULE Spec2Model ----
(***************************************************************************)
(* A model of the Backstab Discord bot's match-end detection and player    *)
(* statistics aggregation (cogs/CogServerStatus.py), of the nickname       *)
(* blacklist command (cogs/CogPlayerStats.py) and of the rank lookup.      *)
(*                                                                         *)
(* Representation.                                                         *)
(*   - Python's None / a value is the empty / one-element sequence         *)
(*     (None, Some(x)), so that both sides of a comparison have one type.  *)
(*   - A "HH:MM:SS" time string is the triple <<hh, mm, ss>> of its        *)
(*     fields; time_to_sec converts it as the code does.                   *)
(*   - A database table is the sequence of its rows in insertion order;    *)
(*     AUTO_INCREMENT ids are the positions (player_stats is never         *)
(*     deleted from).                                                      *)
(***************************************************************************)
EXTENDS Integers, Sequences, FiniteSets, TLC

VARIABLES
    server_data,        \* CogServerStatus.server_data: None or Some(snapshot)
    total_online,       \* CogServerStatus.total_online
    player_stats,       \* table player_stats
    player_blacklist,   \* table player_blacklist
    loop_state,         \* StatusLoop task: "stopped", "running" or "failed"
    loop_minutes,       \* StatusLoop.minutes
    config_interval,    \* config['ServerStatus']['UpdateIntervalMinutes']
    voice_channel_name, \* name of the status voice channel
    today,              \* the current date (a day number)
    last_op,            \* history: the last handler that ran and how it ended
    prev_data,          \* history: server_data as the last handler found it
    calls,              \* history: the record_player_stats calls of the last handler
    last_query,         \* history: the query of the last handler, None without one
    last_cmd,           \* history: the caller and options of the last command
    tick_log,           \* history: what the last tick that ran to its end updated
    dis_uid,            \* column dis_uid of player_stats, by row id
    color,              \* columns color_r, color_g, color_b of player_stats, by row id
    views,              \* the ClaimNickname views that await a button
    map_stats,          \* table map_stats
    map_call,           \* history: the last record_map_stats call
    split_in,           \* inputs of split_list
    split_out,          \* result of split_list
    match_history,      \* per nickname, the rolling match-outcome history
    outcomes,           \* history: per nickname, the number of outcomes recorded
    lfg_queue,          \* the LFG queue
    legacy_stats,       \* table LegacyStats, by nickname: None or Some(row)
    user_links,         \* table DiscordUserLinks
    profile_custom,     \* table ProfileCustomization
    player_patches,     \* table PlayerPatches
    legacy_call,        \* history: the last check_legacy_uniquenick call
    history,            \* history: the calls RecordMatch has made so far
    rank_in,            \* inputs of the rank lookup
    rank_out            \* results of the rank lookup

vars == <<server_data, total_online, player_stats, player_blacklist, loop_state,
          loop_minutes, config_interval, voice_channel_name, today, last_op,
          prev_data, calls, last_query, history, rank_in, rank_out, last_cmd,
          tick_log,
          dis_uid, color, views, map_stats, map_call, split_in, split_out,
          match_history, outcomes, lfg_queue, legacy_stats, user_links,
          profile_custom, player_patches, legacy_call>>

\* The state of the nickname commands.
nickVars == <<dis_uid, color, views>>

\* The state of the polling loop and of the aggregator.
loopVars == <<server_data, total_online, player_stats, player_blacklist,
              loop_state, loop_minutes, config_interval, voice_channel_name,
              today, history, rank_in, rank_out>>

\* The state of the map statistics, of split_list, of the match-outcome
\* history and of the LFG queue.
mapVars == <<map_stats, map_call>>
splitVars == <<split_in, split_out>>
histVars == <<match_history, outcomes>>
lfgVars == <<lfg_queue>>
legacyVars == <<legacy_stats, user_links, profile_custom, player_patches,
                legacy_call>>
auxVars == <<mapVars, splitVars, histVars, lfgVars, legacyVars>>

-----------------------------------------------------------------------------
(* Bounds of the model *)

\* at most this many record_player_stats calls in one behaviour
MaxMatches == 2
\* the bot runs on one of the days 0..MaxDay
MaxDay == 1

\* nicknames of players
Names == {"a", "b"}
\* ids of the rows of player_stats
RowIds == 1..Cardinality(Names)
\* per-match score and deaths of a player
ScoreValues == {0, 2}
DeathValues == {0, 1}

-----------------------------------------------------------------------------
(* Program constants *)

\* config['PlayerStats']['MatchMinPlayers'] (a value of the config file)
MatchMinPlayers == 2

\* The status strings, without the emoji that ends the first two.
STATUS_ONLINE_STR == "SERVERS: ONLINE"
STATUS_OFFLINE_STR == "SERVERS: OFFLINE"
STATUS_ERROR_STR == "SERVERS: UNKNOWN"

-----------------------------------------------------------------------------
(* Python's None *)

None == <<>>
Some(x) == <<x>>
IsNone(o) == o = <<>>
Val(o) == o[1]

-----------------------------------------------------------------------------
(* The player_stats table and the aggregator *)

\* The dictionary sum_player_stats starts from when orig_stats is None.
ZeroStats ==
    [score |-> 0, deaths |-> 0, us_games |-> 0, ch_games |-> 0, ac_games |-> 0,
     eu_games |-> 0, cq_games |-> 0, cf_games |-> 0, wins |-> 0, losses |-> 0,
     top_player |-> 0]

\* The statistic columns of a row (what getOne selects, less the id).
StatsOf(row) ==
    [score |-> row.score, deaths |-> row.deaths, us_games |-> row.us_games,
     ch_games |-> row.ch_games, ac_games |-> row.ac_games,
     eu_games |-> row.eu_games, cq_games |-> row.cq_games,
     cf_games |-> row.cf_games, wins |-> row.wins, losses |-> row.losses,
     top_player |-> row.top_player]

\* A row of player_stats with the given statistic columns.
MakeRow(id, nickname, first_seen, st) ==
    [id |-> id, nickname |-> nickname, first_seen |-> first_seen,
     score |-> st.score, deaths |-> st.deaths, us_games |-> st.us_games,
     ch_games |-> st.ch_games, ac_games |-> st.ac_games,
     eu_games |-> st.eu_games, cq_games |-> st.cq_games,
     cf_games |-> st.cf_games, wins |-> st.wins, losses |-> st.losses,
     top_player |-> st.top_player]

\* db.getOne("player_stats", ..., ("nickname=%s", [nickname])): the first
\* matching row, or None.
GetOne(table, nickname) ==
    LET hits == SelectSeq(table, LAMBDA r : r.nickname = nickname)
    IN IF hits = <<>> THEN None ELSE Some(hits[1])

\* Mutation of UpdateRow: the row is taken out of the table.
UpdateRow_Drop(table, id, st) == SelectSeq(table, LAMBDA r : r.id # id)

\* db.update("player_stats", st, ["id=<id>"])
UpdateRow(table, id, st) ==
    [i \in 1..Len(table) |->
        IF table[i].id = id
        THEN MakeRow(id, table[i].nickname, table[i].first_seen, st)
        ELSE table[i]]

\* InsertRow that stamps the row with day 0.
InsertRow_DayZero(table, nickname, first_seen, st) ==
    Append(table, MakeRow(Len(table) + 1, nickname, 0, st))

\* db.insert("player_stats", st + nickname + first_seen)
InsertRow(table, nickname, first_seen, st) ==
    Append(table, MakeRow(Len(table) + 1, nickname, first_seen, st))

\* sum_player_stats with the second team's comparisons as the first team's.
SumOutcome_SecondAsFirst(st, p, game_data) ==
    IF game_data.team1_score > game_data.team2_score
    THEN [st EXCEPT !.wins = @ + 1]
    ELSE IF game_data.team1_score < game_data.team2_score
         THEN [st EXCEPT !.losses = @ + 1]
         ELSE st

\* sum_player_stats: wins and losses (draws are omitted)
SumOutcome(st, p, game_data) ==
    IF p.team = 0
    THEN IF game_data.team1_score > game_data.team2_score
         THEN [st EXCEPT !.wins = @ + 1]
         ELSE IF game_data.team1_score < game_data.team2_score
              THEN [st EXCEPT !.losses = @ + 1]
              ELSE st
    ELSE IF game_data.team1_score < game_data.team2_score
         THEN [st EXCEPT !.wins = @ + 1]
         ELSE IF game_data.team1_score > game_data.team2_score
              THEN [st EXCEPT !.losses = @ + 1]
              ELSE st

\* sum_player_stats: the country of the player's team
TeamOf(p, game_data) ==
    IF p.team = 0 THEN game_data.team1_country ELSE game_data.team2_country

\* Mutation of SumTeam: a country other than US, CH and AC counts nowhere.
SumTeam_NoDefault(st, team) ==
    IF team = "US" THEN [st EXCEPT !.us_games = @ + 1]
    ELSE IF team = "CH" THEN [st EXCEPT !.ch_games = @ + 1]
    ELSE IF team = "AC" THEN [st EXCEPT !.ac_games = @ + 1]
    ELSE st

\* sum_player_stats: the team-country counter
SumTeam(st, team) ==
    IF team = "US" THEN [st EXCEPT !.us_games = @ + 1]
    ELSE IF team = "CH" THEN [st EXCEPT !.ch_games = @ + 1]
    ELSE IF team = "AC" THEN [st EXCEPT !.ac_games = @ + 1]
    ELSE [st EXCEPT !.eu_games = @ + 1]

\* sum_player_stats: the gamemode counter
SumGamemode(st, game_data) ==
    IF game_data.game_type = "capturetheflag"
    THEN [st EXCEPT !.cf_games = @ + 1]
    ELSE [st EXCEPT !.cq_games = @ + 1]

\* sum_player_stats: the top player counter
SumTopPlayer(st, p, top_player_name) ==
    IF p.name = top_player_name THEN [st EXCEPT !.top_player = @ + 1] ELSE st

\* sum_player_stats that stores the match's values in place of the sums.
SumScoreDeaths_Overwrite(st, p) ==
    [st EXCEPT !.score = p.score, !.deaths = p.deaths]

\* sum_player_stats: score and deaths
SumScoreDeaths(st, p) ==
    [st EXCEPT !.score = @ + p.score, !.deaths = @ + p.deaths]

\* sum_player_stats(orig_stats, player_new_stats, game_data, top_player_name)
sum_player_stats(orig_stats, p, game_data, top_player_name) ==
    LET start == IF IsNone(orig_stats) THEN ZeroStats ELSE StatsOf(Val(orig_stats))
        s1 == SumScoreDeaths(start, p)
        s2 == SumOutcome(s1, p, game_data)
        s3 == SumTeam(s2, TeamOf(p, game_data))
        s4 == SumGamemode(s3, game_data)
    IN SumTopPlayer(s4, p, top_player_name)

\* BeatsTop that breaks a tie on score by the most deaths.
BeatsTop_MostDeaths(p, top) ==
    \/ IsNone(top)
    \/ p.score > Val(top).score
    \/ (p.score = Val(top).score /\ p.deaths > Val(top).deaths)

\* record_player_stats: whether player p replaces the top player so far
BeatsTop(p, top) ==
    \/ IsNone(top)
    \/ p.score > Val(top).score
    \/ (p.score = Val(top).score /\ p.deaths < Val(top).deaths)

\* record_player_stats: the first loop, over players[i..], from top player top
RECURSIVE TopPlayerFrom(_, _, _)
TopPlayerFrom(players, i, top) ==
    IF i > Len(players) THEN top
    ELSE TopPlayerFrom(players, i + 1,
                       IF BeatsTop(players[i], top) THEN Some(players[i]) ELSE top)

\* record_player_stats: one iteration of the second loop
RecordOnePlayer(table, p, game_data, top_player_name, date) ==
    LET dbEntry == GetOne(table, p.name)
        summed == sum_player_stats(dbEntry, p, game_data, top_player_name)
    IN IF ~IsNone(dbEntry)
       THEN UpdateRow(table, Val(dbEntry).id, summed)
       ELSE InsertRow(table, p.name, date, summed)

\* record_player_stats: the second loop, over players[i..]
RECURSIVE RecordPlayersFrom(_, _, _, _, _)
RecordPlayersFrom(table, game_data, i, top_player_name, date) ==
    IF i > Len(game_data.players) THEN table
    ELSE RecordPlayersFrom(
            RecordOnePlayer(table, game_data.players[i], game_data,
                            top_player_name, date),
            game_data, i + 1, top_player_name, date)

\* record_player_stats(server_data): the table after the call
record_player_stats(table, game_data, date) ==
    LET top == TopPlayerFrom(game_data.players, 1, None)
    IN IF game_data.players = <<>> THEN table
       ELSE RecordPlayersFrom(table, game_data, 1, Val(top).name, date)

-----------------------------------------------------------------------------
(* The inputs: finished matches *)

Countries == {"US", "CH", "AC", "EU"}
GameTypes == {"conquest", "capturetheflag"}

\* The match-level fields of a server entry. Every country plays on each
\* side, every outcome (team 1 wins, team 2 wins, draw) and both gamemodes
\* occur.
Games ==
    { [team1_country |-> "US", team2_country |-> "CH", team1_score |-> 1,
       team2_score |-> 2, game_type |-> "conquest"],
      [team1_country |-> "CH", team2_country |-> "US", team1_score |-> 2,
       team2_score |-> 1, game_type |-> "capturetheflag"],
      [team1_country |-> "AC", team2_country |-> "EU", team1_score |-> 1,
       team2_score |-> 1, game_type |-> "conquest"],
      [team1_country |-> "EU", team2_country |-> "AC", team1_score |-> 3,
       team2_score |-> 0, game_type |-> "capturetheflag"] }

\* The match of the two-player lists and of the polling loop's snapshots.
DuelGame ==
    [team1_country |-> "US", team2_country |-> "CH", team1_score |-> 1,
     team2_score |-> 2, game_type |-> "conquest"]

\* One player of a server entry's player list.
PlayerEntries ==
    [name : Names, score : ScoreValues, deaths : DeathValues, team : {0, 1}]

\* Player lists of one player (who scored and died), and of the two players
\* on opposite teams with every combination of score and deaths.
SoloLists == { <<p>> : p \in {x \in PlayerEntries : x.score = 2 /\ x.deaths = 1} }
DuelLists ==
    { pq \in PlayerEntries \X PlayerEntries :
        /\ pq[1].team = 0 /\ pq[2].team = 1
        /\ pq[1].name = "a" /\ pq[2].name = "b" }

\* A server entry of a snapshot.
ServerEntry(id, time, g, players) ==
    [id |-> id, time_elapsed |-> time, players |-> players,
     team1_country |-> g.team1_country, team2_country |-> g.team2_country,
     team1_score |-> g.team1_score, team2_score |-> g.team2_score,
     game_type |-> g.game_type]

\* The finished matches the aggregator is fed with.
Matches ==
    { ServerEntry(1, <<0, 10, 0>>, g, ps) : g \in Games, ps \in SoloLists }
    \cup { ServerEntry(1, <<0, 10, 0>>, DuelGame, ps) : ps \in DuelLists \cup {<<>>} }

-----------------------------------------------------------------------------
(* History *)

\* The record of one record_player_stats call.
Call(table, game_data, date) ==
    [match |-> game_data, before |-> table,
     after |-> record_player_stats(table, game_data, date)]

-----------------------------------------------------------------------------
(* The rank lookup *)

\* RANK_DATA with the ranges of "Private 1st Class" and "Corporal" in the
\* other order.
RANK_DATA_Swapped ==
    << [lo |-> 0, hi |-> Some(25), name |-> "Private"],
       [lo |-> 50, hi |-> Some(100), name |-> "Corporal"],
       [lo |-> 25, hi |-> Some(50), name |-> "Private 1st Class"],
       [lo |-> 100, hi |-> Some(150), name |-> "Sergeant"],
       [lo |-> 150, hi |-> Some(225), name |-> "Sergeant 1st Class"],
       [lo |-> 225, hi |-> Some(360), name |-> "Master Sergeant"],
       [lo |-> 360, hi |-> Some(550), name |-> "Sgt. Major"],
       [lo |-> 550, hi |-> Some(750), name |-> "Command Sgt. Major"],
       [lo |-> 750, hi |-> Some(1050), name |-> "Warrant Officer"],
       [lo |-> 1050, hi |-> Some(1500), name |-> "Chief Warrant Officer"],
       [lo |-> 1500, hi |-> Some(2000), name |-> "2nd Lieutenant"],
       [lo |-> 2000, hi |-> Some(2800), name |-> "1st Lieutenant"],
       [lo |-> 2800, hi |-> Some(4000), name |-> "Captain"],
       [lo |-> 4000, hi |-> Some(5800), name |-> "Major"],
       [lo |-> 5800, hi |-> Some(8000), name |-> "Lieutenant Colonel"],
       [lo |-> 8000, hi |-> Some(12000), name |-> "Colonel"],
       [lo |-> 12000, hi |-> Some(16000), name |-> "Brigadier General"],
       [lo |-> 16000, hi |-> Some(22000), name |-> "Major General"],
       [lo |-> 22000, hi |-> Some(32000), name |-> "Lieutenant General"],
       [lo |-> 32000, hi |-> None, name |-> "5 Star General"] >>

\* RANK_DATA in the order of the dictionary: the score range [lo, hi) of each
\* rank; hi = None stands for float('inf').
RANK_DATA ==
    << [lo |-> 0, hi |-> Some(25), name |-> "Private"],
       [lo |-> 25, hi |-> Some(50), name |-> "Private 1st Class"],
       [lo |-> 50, hi |-> Some(100), name |-> "Corporal"],
       [lo |-> 100, hi |-> Some(150), name |-> "Sergeant"],
       [lo |-> 150, hi |-> Some(225), name |-> "Sergeant 1st Class"],
       [lo |-> 225, hi |-> Some(360), name |-> "Master Sergeant"],
       [lo |-> 360, hi |-> Some(550), name |-> "Sgt. Major"],
       [lo |-> 550, hi |-> Some(750), name |-> "Command Sgt. Major"],
       [lo |-> 750, hi |-> Some(1050), name |-> "Warrant Officer"],
       [lo |-> 1050, hi |-> Some(1500), name |-> "Chief Warrant Officer"],
       [lo |-> 1500, hi |-> Some(2000), name |-> "2nd Lieutenant"],
       [lo |-> 2000, hi |-> Some(2800), name |-> "1st Lieutenant"],
       [lo |-> 2800, hi |-> Some(4000), name |-> "Captain"],
       [lo |-> 4000, hi |-> Some(5800), name |-> "Major"],
       [lo |-> 5800, hi |-> Some(8000), name |-> "Lieutenant Colonel"],
       [lo |-> 8000, hi |-> Some(12000), name |-> "Colonel"],
       [lo |-> 12000, hi |-> Some(16000), name |-> "Brigadier General"],
       [lo |-> 16000, hi |-> Some(22000), name |-> "Major General"],
       [lo |-> 22000, hi |-> Some(32000), name |-> "Lieutenant General"],
       [lo |-> 32000, hi |-> None, name |-> "5 Star General"] >>

\* "score_range[0] <= score < score_range[1]"
InRange(range, score) ==
    range.lo <= score /\ (IsNone(range.hi) \/ score < Val(range.hi))

\* get_rank_data(score): the position in RANK_DATA of the first range that
\* holds the score, or None when the loop ends without a return.
get_rank_data(score) ==
    LET data == RANK_DATA
        hits == { i \in 1..Len(data) : InRange(data[i], score) }
    IN IF hits = {} THEN None
       ELSE Some(CHOOSE i \in hits : \A j \in hits : i <= j)

\* The scores looked up: around every threshold of RANK_DATA.
RankScores ==
    UNION { {RANK_DATA[i].lo - 1, RANK_DATA[i].lo, RANK_DATA[i].lo + 1} :
            i \in 1..Len(RANK_DATA) }

-----------------------------------------------------------------------------
(* The initial state: the bot constructed, the tables just created *)

ConfigIntervals == {1, 5}

\* The bot constructed over a player_stats table.
InitOver(table) ==
    /\ server_data = None
    /\ total_online = 0
    /\ player_stats = table
    /\ player_blacklist = <<>>
    /\ loop_state = "stopped"
    /\ loop_minutes = 5
    /\ config_interval \in ConfigIntervals
    /\ voice_channel_name = "status"
    /\ today \in 0..MaxDay
    /\ last_op = [op |-> "init", outcome |-> "ok"]
    /\ prev_data = None
    /\ calls = <<>>
    /\ last_query = None
    /\ history = <<>>
    /\ last_cmd = None
    /\ tick_log = None
    /\ dis_uid = [id \in RowIds |-> None]
    /\ color = [id \in RowIds |-> None]
    /\ views = {}
    /\ map_stats = <<>>
    /\ map_call = None
    /\ match_history = [n \in Names |-> <<>>]
    /\ outcomes = [n \in Names |-> 0]
    /\ lfg_queue = <<>>
    /\ user_links = <<>>
    /\ profile_custom = <<>>
    /\ player_patches = <<>>
    /\ legacy_call = None

InitBot == InitOver(<<>>)

Init ==
    /\ InitBot
    /\ rank_in = <<>>
    /\ rank_out = <<>>
    /\ split_in = <<>>
    /\ split_out = None
    /\ legacy_stats = [n \in Names |-> None]

-----------------------------------------------------------------------------
(* The aggregator on its own: record_player_stats fed with finished matches *)

RecordMatch ==
    /\ Len(history) < MaxMatches
    /\ \E m \in Matches :
        LET c == Call(player_stats, m, today)
        IN /\ player_stats' = c.after
           /\ calls' = <<c>>
           /\ tick_log' = None
           /\ history' = Append(history, c)
    /\ last_op' = [op |-> "record", outcome |-> "ok"]
    /\ last_query' = None
    /\ last_cmd' = None
    /\ UNCHANGED <<nickVars, auxVars>>
    /\ UNCHANGED <<server_data, total_online, player_blacklist, loop_state,
                   loop_minutes, config_interval, voice_channel_name, today,
                   prev_data, rank_in, rank_out>>

InitAgg == Init /\ config_interval = 5

NextAgg == RecordMatch

SpecAgg == InitAgg /\ [][NextAgg]_vars

-----------------------------------------------------------------------------
(* The rank lookup on its own: get_rank_data applied to two scores *)

RankLookup ==
    /\ rank_out = <<>>
    /\ rank_out' = <<get_rank_data(rank_in[1]), get_rank_data(rank_in[2])>>
    /\ last_op' = [op |-> "rank", outcome |-> "ok"]
    /\ last_query' = None
    /\ last_cmd' = None
    /\ tick_log' = None
    /\ UNCHANGED <<nickVars, auxVars>>
    /\ UNCHANGED <<server_data, total_online, player_stats, player_blacklist,
                   loop_state, loop_minutes, config_interval, voice_channel_name,
                   today, prev_data, calls, history, rank_in>>

InitRank ==
    /\ InitBot
    /\ config_interval = 5
    /\ today = 0
    /\ rank_in \in RankScores \X RankScores
    /\ rank_out = <<>>
    /\ split_in = <<>>
    /\ split_out = None
    /\ legacy_stats = [n \in Names |-> None]

NextRank == RankLookup

SpecRank == InitRank /\ [][NextRank]_vars

-----------------------------------------------------------------------------
(* The polling loop: StatusLoop *)

\* time_to_sec without the hours field.
time_to_sec_NoHours(time) == time[2] * 60 + time[3]

\* time_to_sec("HH:MM:SS")
time_to_sec(time) == time[1] * 3600 + time[2] * 60 + time[3]

\* StatusLoop: the first server of the new data with the id, or None
FindServer(results, id) ==
    LET hits == SelectSeq(results, LAMBDA s : s.id = id)
    IN IF hits = <<>> THEN None ELSE Some(hits[1])

\* StatusLoop: "_original_time > _new_time", a new game has begun
NewGameBegun(s_o, s_n) ==
    time_to_sec(s_o.time_elapsed) > time_to_sec(s_n.time_elapsed)

\* MustRecord that skips the servers that have gone offline.
MustRecord_SkipOffline(s_o, found) ==
    IF IsNone(found) THEN FALSE ELSE NewGameBegun(s_o, Val(found))

\* StatusLoop: whether the previous entry s_o is recorded, given the entry of
\* the same server in the new data (None: the server has gone offline)
MustRecord(s_o, found) ==
    IF IsNone(found) THEN TRUE ELSE NewGameBegun(s_o, Val(found))

\* Mutation of CheckServersFrom: after the previous servers, the servers that
\* only the new data holds are recorded too.
RECURSIVE CheckServersFrom_NewToo(_, _, _, _, _)
CheckServersFrom_NewToo(old, new, i, acc, date) ==
    IF i > Len(old) + Len(new) THEN acc
    ELSE IF i > Len(old)
    THEN LET s_n == new[i - Len(old)]
             c == Call(acc.table, s_n, date)
         IN CheckServersFrom_NewToo(old, new, i + 1,
                IF IsNone(FindServer(old, s_n.id))
                THEN [table |-> c.after, calls |-> Append(acc.calls, c)]
                ELSE acc,
                date)
    ELSE LET s_o == old[i]
             c == Call(acc.table, s_o, date)
         IN CheckServersFrom_NewToo(old, new, i + 1,
                IF MustRecord(s_o, FindServer(new, s_o.id))
                THEN [table |-> c.after, calls |-> Append(acc.calls, c)]
                ELSE acc,
                date)

\* Mutation of CheckServersFrom: a previous entry that is recorded is
\* recorded a second time.
RECURSIVE CheckServersFrom_Twice(_, _, _, _, _)
CheckServersFrom_Twice(old, new, i, acc, date) ==
    IF i > Len(old) THEN acc
    ELSE LET s_o == old[i]
             c == Call(acc.table, s_o, date)
             d == Call(c.after, s_o, date)
         IN CheckServersFrom_Twice(old, new, i + 1,
                IF MustRecord(s_o, FindServer(new, s_o.id))
                THEN [table |-> d.after, calls |-> acc.calls \o <<c, d>>]
                ELSE acc,
                date)

\* StatusLoop: the loop over the previous servers old[i..]; acc holds the table
\* and the calls made so far.
RECURSIVE CheckServersFrom(_, _, _, _, _)
CheckServersFrom(old, new, i, acc, date) ==
    IF i > Len(old) THEN acc
    ELSE LET s_o == old[i]
             c == Call(acc.table, s_o, date)
         IN CheckServersFrom(old, new, i + 1,
                IF MustRecord(s_o, FindServer(new, s_o.id))
                THEN [table |-> c.after, calls |-> Append(acc.calls, c)]
                ELSE acc,
                date)

\* StatusLoop: "Calculate total players online"
RECURSIVE TotalOnline(_)
TotalOnline(results) ==
    IF results = <<>> THEN 0
    ELSE Len(Head(results).players) + TotalOnline(Tail(results))

\* StatusLoop: the name the status channel gets (server_data is not None)
StatusName(snapshot) ==
    IF snapshot.count > 0 THEN STATUS_ONLINE_STR ELSE STATUS_OFFLINE_STR

\* Mutation of Renames: every tick edits the channel name.
Renames_Always(name, snapshot) == TRUE

\* StatusLoop: the channel is edited only when its name is another one
Renames(name, snapshot) == name # StatusName(snapshot)

\* Mutation of NextInterval: the tick leaves the interval alone.
NextInterval_Keep(minutes, configured) == minutes

\* StatusLoop: "Update interval if it differs from config"
NextInterval(minutes, configured) ==
    IF minutes # configured THEN configured ELSE minutes

\* The most matches any one player of the table has played.
RECURSIVE Played(_)
Played(table) ==
    IF table = <<>> THEN 0
    ELSE LET row == Head(table)
             n == row.us_games + row.ch_games + row.ac_games + row.eu_games
             rest == Played(Tail(table))
         IN IF n > rest THEN n ELSE rest

\* The server entries the API reports for one server.
LoopTimes == { <<0, 1, 30>>, <<1, 0, 0>> }
LoopLists ==
    { << [name |-> "a", score |-> 2, deaths |-> 1, team |-> 0] >>,
      << [name |-> "a", score |-> 2, deaths |-> 1, team |-> 0],
         [name |-> "b", score |-> 0, deaths |-> 0, team |-> 1] >> }
ServerIds == {1, 2}
LoopEntries(id) ==
    { ServerEntry(id, t, DuelGame, ps) : t \in LoopTimes, ps \in LoopLists }

\* The snapshots the API answers with: the online servers in the order of
\* their ids.
Snapshots ==
    LET one(id) == { <<e>> : e \in LoopEntries(id) } \cup { <<>> }
    IN { [count |-> Len(r1 \o r2), results |-> r1 \o r2] :
            r1 \in one(1), r2 \in one(2) }

\* What the HTTP request of a query meets: an answer with status 200 and a
\* snapshot as its body, an answer with another status, a connection that
\* fails, or an answer with status 200 whose body is not JSON.
Responses ==
    [kind : {"ok"}, body : { Some(x) : x \in Snapshots }]
    \cup [kind : {"status", "connection", "malformed"}, body : {None}]

\* CogServerStatus.query_api: what the call returns, or that it raised.
\* requests.get raises on a failed connection and _response.json() on a body
\* that does not parse; nothing in query_api catches either.
query_api(response) ==
    IF response.kind = "connection"
    THEN [raised |-> TRUE, value |-> None]
    ELSE IF response.kind = "status"
    THEN [raised |-> FALSE, value |-> None]
    ELSE IF response.kind = "malformed"
    THEN [raised |-> TRUE, value |-> None]
    ELSE [raised |-> FALSE, value |-> response.body]

\* The record of one query.
Query(response) == Some([response |-> response, result |-> query_api(response)])

\* A tick whose query answers with a snapshot.
StatusLoopAnswered ==
    /\ loop_state = "running"
    /\ \E response \in Responses :
        LET q == query_api(response)
            new == Val(q.value)
            start == [table |-> player_stats, calls |-> <<>>]
            r == IF IsNone(server_data) THEN start
                 ELSE CheckServersFrom(Val(server_data).results, new.results,
                                       1, start, today)
        IN /\ ~q.raised
           /\ ~IsNone(q.value)
           /\ Played(r.table) <= MaxMatches
           /\ last_query' = Query(response)
           /\ player_stats' = r.table
           /\ calls' = r.calls
           /\ tick_log' =
                Some([interval_changed |-> loop_minutes # config_interval,
                      renamed |-> Renames(voice_channel_name, new)])
           /\ server_data' = Some(new)
           /\ total_online' = TotalOnline(new.results)
           /\ voice_channel_name' =
                IF Renames(voice_channel_name, new) THEN StatusName(new)
                ELSE voice_channel_name
    /\ prev_data' = server_data
    /\ loop_minutes' = NextInterval(loop_minutes, config_interval)
    /\ last_op' = [op |-> "tick", outcome |-> "ok"]
    /\ last_cmd' = None
    /\ UNCHANGED <<nickVars, auxVars>>
    /\ UNCHANGED <<player_blacklist, loop_state, config_interval, today,
                   history, rank_in, rank_out>>

\* A tick whose query answers None (status code other than 200):
\* _new_data['results'] raises TypeError at the first previous server, or,
\* without one, self.server_data['results'] raises it once server_data is
\* None. The exception ends the task.
StatusLoopUnavailable ==
    /\ loop_state = "running"
    /\ \E response \in Responses :
        /\ ~query_api(response).raised
        /\ IsNone(query_api(response).value)
        /\ last_query' = Query(response)
    /\ server_data' = IF ~IsNone(server_data) /\ Val(server_data).results # <<>>
                      THEN server_data ELSE None
    /\ loop_state' = "failed"
    /\ last_op' = [op |-> "tick", outcome |-> "raised"]
    /\ last_cmd' = None
    /\ UNCHANGED <<nickVars, auxVars>>
    /\ prev_data' = server_data
    /\ calls' = <<>>
    /\ tick_log' = None
    /\ UNCHANGED <<total_online, player_stats, player_blacklist, loop_minutes,
                   config_interval, voice_channel_name, today, history,
                   rank_in, rank_out>>

\* A tick whose query raises. The exceptions of requests are OSErrors, which
\* the task waits out and then runs the tick again; the exception of a body
\* that does not parse is one of them or a plain ValueError, which ends the
\* task, depending on the version of requests.
StatusLoopQueryRaised ==
    /\ loop_state = "running"
    /\ \E response \in Responses :
        /\ query_api(response).raised
        /\ last_query' = Query(response)
        /\ loop_state' \in IF response.kind = "malformed"
                           THEN {"running", "failed"} ELSE {"running"}
    /\ last_op' = [op |-> "tick", outcome |-> "raised"]
    /\ last_cmd' = None
    /\ UNCHANGED <<nickVars, auxVars>>
    /\ prev_data' = server_data
    /\ calls' = <<>>
    /\ tick_log' = None
    /\ UNCHANGED <<server_data, total_online, player_stats, player_blacklist,
                   loop_minutes, config_interval, voice_channel_name, today,
                   history, rank_in, rank_out>>

StatusLoop ==
    \/ StatusLoopAnswered
    \/ StatusLoopUnavailable
    \/ StatusLoopQueryRaised

\* on_ready: starts the loop when it is not running; when it is,
\* _config_interval is unbound at the last statement, which raises.
OnReady ==
    /\ IF loop_state # "running"
       THEN /\ loop_minutes' = config_interval
            /\ loop_state' = "running"
            /\ last_op' = [op |-> "on_ready", outcome |-> "ok"]
       ELSE /\ last_op' = [op |-> "on_ready", outcome |-> "raised"]
            /\ UNCHANGED <<loop_minutes, loop_state>>
    /\ prev_data' = server_data
    /\ calls' = <<>>
    /\ tick_log' = None
    /\ last_query' = None
    /\ last_cmd' = None
    /\ UNCHANGED <<nickVars, auxVars>>
    /\ UNCHANGED <<server_data, total_online, player_stats, player_blacklist,
                   config_interval, voice_channel_name, today, history,
                   rank_in, rank_out>>

\* /reloadconfig: reload_config reads the config file again
ReloadConfig ==
    /\ config_interval' \in ConfigIntervals
    /\ last_op' = [op |-> "reloadconfig", outcome |-> "ok"]
    /\ prev_data' = server_data
    /\ calls' = <<>>
    /\ tick_log' = None
    /\ last_query' = None
    /\ last_cmd' = None
    /\ UNCHANGED <<nickVars, auxVars>>
    /\ UNCHANGED <<server_data, total_online, player_stats, player_blacklist,
                   loop_state, loop_minutes, voice_channel_name, today, history,
                   rank_in, rank_out>>

-----------------------------------------------------------------------------
(* /stats nickname blacklist *)

\* Mutation of BlacklistIndex: the lookup finds no row.
BlacklistIndex_NeverFound(table, nickname) == 0

\* The first row of player_blacklist with the nickname (its position), or 0.
BlacklistIndex(table, nickname) ==
    IF \E i \in 1..Len(table) : table[i].nickname = nickname
    THEN CHOOSE i \in 1..Len(table) :
            /\ table[i].nickname = nickname
            /\ \A j \in 1..(i - 1) : table[j].nickname # nickname
    ELSE 0

\* db.delete("player_blacklist", ("id = %s", [id])) of the row at position i
DeleteAt(table, i) ==
    [j \in 1..(Len(table) - 1) |-> IF j < i THEN table[j] ELSE table[j + 1]]

\* A permission test that lets every caller through.
Denied_Never(manage_channels) == FALSE

\* assign, blacklist: "if not ctx.author.guild_permissions.manage_channels"
Denied(manage_channels) == ~manage_channels

\* blacklist(action, nickname) by a caller with or without Manage Channels
\* (the pid column of player_stats is the row's id here)
Blacklist ==
    /\ \E action \in {"Add", "Remove"}, nickname \in Names, allowed \in BOOLEAN :
        LET dbPID == GetOne(player_stats, nickname)
            at == BlacklistIndex(player_blacklist, nickname)
        IN /\ last_cmd' = Some([manage_channels |-> allowed,
                                 action |-> action, nickname |-> nickname])
           /\ IF Denied(allowed)
              THEN /\ last_op' = [op |-> "blacklist", outcome |-> "denied"]
                   /\ UNCHANGED player_blacklist
              ELSE IF action = "Add"
              THEN IF at = 0
                   THEN /\ player_blacklist' = Append(player_blacklist,
                               [pid |-> IF IsNone(dbPID) THEN None
                                        ELSE Some(Val(dbPID).id),
                                nickname |-> nickname])
                        /\ last_op' = [op |-> "blacklist", outcome |-> "added"]
                   ELSE /\ last_op' = [op |-> "blacklist", outcome |-> "already"]
                        /\ UNCHANGED player_blacklist
              ELSE IF at # 0
                   THEN /\ player_blacklist' = DeleteAt(player_blacklist, at)
                        /\ last_op' = [op |-> "blacklist", outcome |-> "removed"]
                   ELSE /\ last_op' = [op |-> "blacklist", outcome |-> "notfound"]
                        /\ UNCHANGED player_blacklist
    /\ prev_data' = server_data
    /\ calls' = <<>>
    /\ tick_log' = None
    /\ last_query' = None
    /\ UNCHANGED <<nickVars, auxVars>>
    /\ UNCHANGED <<server_data, total_online, player_stats, loop_state,
                   loop_minutes, config_interval, voice_channel_name, today,
                   history, rank_in, rank_out>>

-----------------------------------------------------------------------------
(* /stats nickname claim, color and assign *)

\* Discord members; "bot" is the bot's own user.
Users == {"u1", "u2"}
Members == Users \cup {"bot"}

\* The nicknames the commands are called with; "zz" has never played.
NickInputs == Names \cup {"zz"}

\* Banner colors (red, green, blue).
Colors == { <<0, 0, 0>>, <<255, 128, 0>> }

\* getOne("player_stats", ["id"], ("dis_uid=%s", [uid])): whether a row has
\* the user as its owner
OwnsSome(table, owners, uid) ==
    \E id \in 1..Len(table) : owners[id] = Some(uid)

\* claim: the checks before the confirmation is shown
ClaimOutcome(table, owners, uid, nickname) ==
    LET dbEntry == GetOne(table, nickname)
    IN IF OwnsSome(table, owners, uid) THEN "already_owner"
       ELSE IF IsNone(dbEntry) THEN "unknown"
       ELSE IF IsNone(owners[Val(dbEntry).id]) THEN "confirm"
       ELSE "claimed"

\* claim(nickname) by a member
Claim ==
    /\ \E uid \in Users, nickname \in NickInputs :
        LET outcome == ClaimOutcome(player_stats, dis_uid, uid, nickname)
        IN /\ last_cmd' = Some([uid |-> uid, nickname |-> nickname])
           /\ last_op' = [op |-> "claim", outcome |-> outcome]
           /\ views' = IF outcome = "confirm"
                       THEN views \cup {[id |-> Val(GetOne(player_stats, nickname)).id,
                                         nickname |-> nickname, author |-> uid]}
                       ELSE views
    /\ prev_data' = server_data
    /\ calls' = <<>>
    /\ tick_log' = None
    /\ last_query' = None
    /\ UNCHANGED <<dis_uid, color>>
    /\ UNCHANGED <<loopVars, auxVars>>

\* ClaimNickname.yes_button_callback: the update and the removal of the view
YesWrite(owners, view) == [owners EXCEPT ![view.id] = Some(view.author)]

YesButton ==
    /\ \E view \in views :
        /\ dis_uid' = YesWrite(dis_uid, view)
        /\ views' = views \ {view}
        /\ last_cmd' = Some([uid |-> view.author, nickname |-> view.nickname])
    /\ last_op' = [op |-> "yes_button", outcome |-> "ok"]
    /\ prev_data' = server_data
    /\ calls' = <<>>
    /\ tick_log' = None
    /\ last_query' = None
    /\ UNCHANGED color
    /\ UNCHANGED <<loopVars, auxVars>>

\* ClaimNickname.no_button_callback
NoButton ==
    /\ \E view \in views :
        /\ views' = views \ {view}
        /\ last_cmd' = Some([uid |-> view.author, nickname |-> view.nickname])
    /\ last_op' = [op |-> "no_button", outcome |-> "ok"]
    /\ prev_data' = server_data
    /\ calls' = <<>>
    /\ tick_log' = None
    /\ last_query' = None
    /\ UNCHANGED <<dis_uid, color>>
    /\ UNCHANGED <<loopVars, auxVars>>

\* An ownership test that only asks whether the nickname exists.
OwnsNickname_AnyCaller(dbEntry, owners, uid) == ~IsNone(dbEntry)

\* color: "_dbEntry and _dbEntry['dis_uid'] == ctx.author.id"
OwnsNickname(dbEntry, owners, uid) ==
    ~IsNone(dbEntry) /\ owners[Val(dbEntry).id] = Some(uid)

\* color(nickname, red, green, blue) by a member
Color ==
    /\ \E uid \in Users, nickname \in NickInputs, rgb \in Colors :
        LET dbEntry == GetOne(player_stats, nickname)
        IN /\ last_cmd' = Some([uid |-> uid, nickname |-> nickname, rgb |-> rgb])
           /\ IF OwnsNickname(dbEntry, dis_uid, uid)
              THEN /\ color' = [color EXCEPT ![Val(dbEntry).id] = Some(rgb)]
                   /\ last_op' = [op |-> "color", outcome |-> "ok"]
              ELSE /\ last_op' = [op |-> "color", outcome |-> "warning"]
                   /\ UNCHANGED color
    /\ prev_data' = server_data
    /\ calls' = <<>>
    /\ tick_log' = None
    /\ last_query' = None
    /\ UNCHANGED <<dis_uid, views>>
    /\ UNCHANGED <<loopVars, auxVars>>

\* assign(member, nickname) by a caller with or without Manage Channels
Assign ==
    /\ \E member \in Members, nickname \in NickInputs, allowed \in BOOLEAN :
        LET dbEntry == GetOne(player_stats, nickname)
            uid == IF member # "bot" THEN Some(member) ELSE None
        IN /\ last_cmd' = Some([manage_channels |-> allowed, member |-> member,
                                 nickname |-> nickname])
           /\ IF Denied(allowed)
              THEN /\ last_op' = [op |-> "assign", outcome |-> "denied"]
                   /\ UNCHANGED dis_uid
              ELSE IF ~IsNone(dbEntry)
              THEN /\ dis_uid' = [dis_uid EXCEPT ![Val(dbEntry).id] = uid]
                   /\ last_op' = [op |-> "assign", outcome |-> "ok"]
              ELSE /\ last_op' = [op |-> "assign", outcome |-> "unknown"]
                   /\ UNCHANGED dis_uid
    /\ prev_data' = server_data
    /\ calls' = <<>>
    /\ tick_log' = None
    /\ last_query' = None
    /\ UNCHANGED <<color, views>>
    /\ UNCHANGED <<loopVars, auxVars>>

\* The table the nickname commands run on: one finished match of "a" and
\* "b" has been recorded.
NickTable ==
    record_player_stats(<<>>,
        ServerEntry(1, <<0, 10, 0>>, DuelGame,
            << [name |-> "a", score |-> 2, deaths |-> 1, team |-> 0],
               [name |-> "b", score |-> 0, deaths |-> 0, team |-> 1] >>), 0)

InitNick ==
    /\ InitOver(NickTable)
    /\ config_interval = 5
    /\ today = 0
    /\ rank_in = <<>>
    /\ rank_out = <<>>
    /\ split_in = <<>>
    /\ split_out = None
    /\ legacy_stats = [n \in Names |-> None]


\* Members claiming nicknames and answering the confirmation.
NextClaim ==
    \/ Claim
    \/ YesButton
    \/ NoButton

\* Members coloring nicknames, admins and others assigning and blacklisting.
NextOwn ==
    \/ Color
    \/ Assign
    \/ Blacklist

SpecClaim == InitNick /\ [][NextClaim]_vars

SpecOwn == InitNick /\ [][NextOwn]_vars

-----------------------------------------------------------------------------
(* Map statistics: CogPlayerStats.record_map_stats *)

\* CommonStrings.MAP_DATA: map name -> <<display name, map id>>
MAP_DATA ==
    [backstab      |-> <<"Backstab", 0>>,
     bridgetoofar  |-> <<"Bridge Too Far", 1>>,
     coldfront     |-> <<"Cold Front", 2>>,
     dammage       |-> <<"Dammage", 3>>,
     deadlypass    |-> <<"Deadly Pass", 4>>,
     harboredge    |-> <<"Harbor Edge", 5>>,
     honor         |-> <<"Honor", 6>>,
     littlebigeye  |-> <<"Little Big Eye", 7>>,
     missilecrisis |-> <<"Missile Crisis", 8>>,
     russianborder |-> <<"Russian Border", 9>>,
     specialop     |-> <<"Special Op", 10>>,
     theblackgold  |-> <<"The Black Gold", 11>>,
     thenest       |-> <<"The Nest", 12>>]

\* The maps and player counts the servers of the model report. "assault"
\* stands for every game type that is not capturetheflag or conquest.
MapNames == {"backstab", "bridgetoofar"}
MapGameTypes == GameTypes \cup {"assault"}
PlayerCounts == {MatchMinPlayers - 1, MatchMinPlayers}

\* The server_data handed to record_map_stats: None or a server's entry.
MapInputs ==
    {None} \cup
    { Some([playersCount |-> p, gameType |-> g, mapName |-> m]) :
        p \in PlayerCounts, g \in MapGameTypes, m \in MapNames }

\* db_discord.getOne("map_stats", ..., ("map_id=%s", [map_id]))
GetMapOne(table, map_id) ==
    LET hits == { i \in 1..Len(table) : table[i].map_id = map_id }
    IN IF hits = {} THEN None ELSE Some(table[CHOOSE i \in hits : TRUE])

\* "Determine if map was played on Conquest of CTF"
Gamemode(entry) ==
    IF entry.gameType = "capturetheflag" THEN "capturetheflag" ELSE "conquest"

\* Mutation of TimesPlayed: the count starts over with every match.
TimesPlayed_StartOver(dbEntry, gamemode) == 1

\* "Add 1 to gamemode times played"
TimesPlayed(dbEntry, gamemode) ==
    IF IsNone(dbEntry) THEN 1 ELSE 1 + Val(dbEntry)[gamemode]

\* db_discord.insertOrUpdate("map_stats", {map_id, map_name, gamemode:
\* times_played}, "map_id"): a new row takes the column defaults, a row with
\* the key gets the given columns.
InsertOrUpdateMap(table, map_id, map_name, gamemode, times_played) ==
    IF IsNone(GetMapOne(table, map_id))
    THEN Append(table,
            [ [map_id |-> map_id, map_name |-> map_name,
               conquest |-> 0, capturetheflag |-> 0]
              EXCEPT ![gamemode] = times_played ])
    ELSE [ i \in 1..Len(table) |->
            IF table[i].map_id = map_id
            THEN [table[i] EXCEPT !.map_name = map_name,
                                  ![gamemode] = times_played]
            ELSE table[i] ]

\* record_map_stats(server_data) on the table; db_ok says whether
\* insertOrUpdate goes through or raises. The result is the returned
\* boolean and the table afterwards.
record_map_stats(table, data, db_ok) ==
    IF IsNone(data) \/ Val(data).playersCount < MatchMinPlayers
    THEN [returned |-> FALSE, table |-> table]
    ELSE LET entry == Val(data)
             gamemode == Gamemode(entry)
             map_id == MAP_DATA[entry.mapName][2]
             dbEntry == GetMapOne(table, map_id)
             times_played == TimesPlayed(dbEntry, gamemode)
         IN IF db_ok
            THEN [returned |-> TRUE,
                  table |-> InsertOrUpdateMap(table, map_id, entry.mapName,
                                              gamemode, times_played)]
            ELSE [returned |-> FALSE, table |-> table]

\* The matches counted in a map_stats table.
RECURSIVE MapPlays(_)
MapPlays(table) ==
    IF table = <<>> THEN 0
    ELSE Head(table).conquest + Head(table).capturetheflag + MapPlays(Tail(table))

\* One call of record_map_stats.
RecordMapStats ==
    /\ MapPlays(map_stats) <= MaxMatches
    /\ \E data \in MapInputs, db_ok \in BOOLEAN :
        LET r == record_map_stats(map_stats, data, db_ok)
        IN /\ map_stats' = r.table
           /\ map_call' = Some([server_data |-> data, db_ok |-> db_ok,
                                before |-> map_stats, returned |-> r.returned])
           /\ last_op' = [op |-> "record_map",
                          outcome |-> IF r.returned THEN "ok" ELSE "failed"]
    /\ prev_data' = server_data
    /\ calls' = <<>>
    /\ tick_log' = None
    /\ last_query' = None
    /\ last_cmd' = None
    /\ UNCHANGED <<loopVars, nickVars, splitVars, histVars, lfgVars, legacyVars>>

NextMap == RecordMapStats

SpecMap == InitAgg /\ [][NextMap]_vars

-----------------------------------------------------------------------------
(* split_list of bot.py, CogServerStatus.py and CogPlayerStats.py *)

\* lists of up to this many elements are split
MaxLen == 4
\* into chunks of up to this size
MaxChunk == 3

Min(a, b) == IF a < b THEN a ELSE b
Max(a, b) == IF a > b THEN a ELSE b

\* Mutation of PyIndex: a negative bound is not counted from the end.
PyIndex_NoWrap(i, n) == IF i < 0 THEN 0 ELSE Min(i, n)

\* A bound of a Python slice on a list of n elements: a negative bound
\* counts from the end, and every bound is clamped to 0..n.
PyIndex(i, n) == IF i < 0 THEN Max(i + n, 0) ELSE Min(i, n)

\* lst[start:stop]
PySlice(lst, start, stop) ==
    SubSeq(lst, PyIndex(start, Len(lst)) + 1, PyIndex(stop, Len(lst)))

\* split_list(lst, chunk_size)
split_list(lst, chunk_size) ==
    IF chunk_size <= 0
    THEN <<lst>>
    ELSE LET num_chunks == Len(lst) \div chunk_size
             remainder == Len(lst) % chunk_size
             result == [ k \in 1..num_chunks |->
                            PySlice(lst, (k - 1) * chunk_size, k * chunk_size) ]
         IN IF remainder # 0
            THEN Append(result, PySlice(lst, -remainder, Len(lst)))
            ELSE result

\* The lists and chunk sizes split_list is called with.
Items == {"x", "y"}
Lists == UNION { [1..n -> Items] : n \in 0..MaxLen }
ChunkSizes == -1..MaxChunk

\* One call of split_list on the inputs.
SplitList ==
    /\ IsNone(split_out)
    /\ split_out' = Some(split_list(split_in[1], split_in[2]))
    /\ last_op' = [op |-> "split_list", outcome |-> "ok"]
    /\ prev_data' = server_data
    /\ calls' = <<>>
    /\ tick_log' = None
    /\ last_query' = None
    /\ last_cmd' = None
    /\ UNCHANGED split_in
    /\ UNCHANGED <<loopVars, nickVars, mapVars, histVars, lfgVars, legacyVars>>

InitSplit ==
    /\ InitBot
    /\ config_interval = 5
    /\ today = 0
    /\ rank_in = <<>>
    /\ rank_out = <<>>
    /\ split_in \in Lists \X ChunkSizes
    /\ split_out = None
    /\ legacy_stats = [n \in Names |-> None]

NextSplit == SplitList

SpecSplit == InitSplit /\ [][NextSplit]_vars

-----------------------------------------------------------------------------
(* The rolling match-outcome history of a player's record *)

\* the fixed length of the rolling history
HistoryLen == 3
\* at most this many outcomes are recorded for one player
MaxOutcomes == 4

Letters == {"W", "L", "D"}

\* The outcome letter of a player: the player's team against the other
\* team by final score, a draw on equal scores.
OutcomeLetter(p, game_data) ==
    LET own == IF p.team = 0 THEN game_data.team1_score ELSE game_data.team2_score
        other == IF p.team = 0 THEN game_data.team2_score ELSE game_data.team1_score
    IN IF own > other THEN "W" ELSE IF own < other THEN "L" ELSE "D"

\* Mutation of PushOutcome: a full history gives up its newest entry.
PushOutcome_DropNewest(h, letter) ==
    IF Len(h) < HistoryLen
    THEN Append(h, letter)
    ELSE Append(SubSeq(h, 1, Len(h) - 1), letter)

\* The outcome letter appended to the rolling history, a full history
\* dropping its oldest entry.
PushOutcome(h, letter) ==
    IF Len(h) < HistoryLen THEN Append(h, letter) ELSE Append(Tail(h), letter)

\* The histories after the outcome of every player of the list, from the
\* i-th on, is appended.
RECURSIVE PushPlayersFrom(_, _, _, _)
PushPlayersFrom(hist, players, game_data, i) ==
    IF i > Len(players) THEN hist
    ELSE LET p == players[i]
         IN PushPlayersFrom(
                [hist EXCEPT ![p.name] =
                    PushOutcome(@, OutcomeLetter(p, game_data))],
                players, game_data, i + 1)

\* The number of entries of a player in a player list.
Entries(players, name) ==
    Cardinality({ i \in 1..Len(players) : players[i].name = name })

\* The finished matches the histories are fed with: every outcome for one
\* player, and one match of two players.
HistMatches ==
    { m \in Matches :
        /\ m.players # <<>>
        /\ Len(m.players) = 2 =>
            \A i \in 1..2 : m.players[i].score = 2 /\ m.players[i].deaths = 1 }

\* One finished match: the outcome of each of its players is appended.
RecordOutcome ==
    /\ \E m \in HistMatches :
        /\ \A n \in Names : outcomes[n] + Entries(m.players, n) <= MaxOutcomes
        /\ match_history' = PushPlayersFrom(match_history, m.players, m, 1)
        /\ outcomes' = [n \in Names |-> outcomes[n] + Entries(m.players, n)]
    /\ last_op' = [op |-> "record_outcome", outcome |-> "ok"]
    /\ prev_data' = server_data
    /\ calls' = <<>>
    /\ tick_log' = None
    /\ last_query' = None
    /\ last_cmd' = None
    /\ UNCHANGED <<loopVars, nickVars, mapVars, splitVars, lfgVars, legacyVars>>

NextHist == RecordOutcome

SpecHist == InitAgg /\ [][NextHist]_vars

-----------------------------------------------------------------------------
(* Legacy nicknames: CogPlayerStats.check_legacy_uniquenick *)

\* Table Players of the backend: the profile id of a uniquenick, None for
\* a uniquenick that is not registered.
PlayerProfile(uniquenick) ==
    IF uniquenick = "a" THEN Some(1)
    ELSE IF uniquenick = "b" THEN Some(2)
    ELSE None

\* The rows LegacyStats can hold for a nickname: with or without an owner,
\* with or without a color.
LegacyRows ==
    [dis_uid : {None} \cup { Some(u) : u \in Users },
     color : {None} \cup { Some(c) : c \in Colors }]

\* The rows of a table with the profile id.
ProfileRows(table, profileid) ==
    { i \in 1..Len(table) : table[i].profileid = profileid }

\* db_discord.insert into a table whose primary key is profileid: a row
\* with a profile id that the table holds already is refused with an
\* exception.
InsertUnique(table, row) ==
    IF ProfileRows(table, row.profileid) = {}
    THEN [raised |-> FALSE, table |-> Append(table, row)]
    ELSE [raised |-> TRUE, table |-> table]

\* The rows of PlayerPatches with the Legacy patch (patchid 0) of a profile.
LegacyPatches(table, profileid) ==
    { i \in 1..Len(table) :
        table[i].profileid = profileid /\ table[i].patchid = 0 }

\* check_legacy_uniquenick(uniquenick) on the tables db: what it returns
\* ("true", "false", or "raised" when an insert raises) and the tables as it
\* leaves them.
check_legacy_uniquenick(db, uniquenick) ==
    LET cur_player == PlayerProfile(uniquenick)
        unchanged(outcome) ==
            [outcome |-> outcome, links |-> db.links, custom |-> db.custom,
             patches |-> db.patches]
    IN IF IsNone(cur_player) THEN unchanged("false")
       ELSE IF ProfileRows(db.links, Val(cur_player)) # {} THEN unchanged("false")
       ELSE IF IsNone(db.legacy[uniquenick]) THEN unchanged("false")
       ELSE
        LET profileid == Val(cur_player)
            legacy_data == Val(db.legacy[uniquenick])
            links == IF ~IsNone(legacy_data.dis_uid)
                     THEN InsertUnique(db.links,
                            [profileid |-> profileid,
                             discord_uid |-> Val(legacy_data.dis_uid)])
                     ELSE [raised |-> FALSE, table |-> db.links]
            custom == IF ~IsNone(legacy_data.color)
                      THEN InsertUnique(db.custom,
                            [profileid |-> profileid,
                             color |-> Val(legacy_data.color)])
                      ELSE [raised |-> FALSE, table |-> db.custom]
            patches == IF LegacyPatches(db.patches, profileid) = {}
                       THEN Append(db.patches,
                                [profileid |-> profileid, patchid |-> 0])
                       ELSE db.patches
        IN IF links.raised THEN unchanged("raised")
           ELSE IF custom.raised
           THEN [outcome |-> "raised", links |-> links.table,
                 custom |-> db.custom, patches |-> db.patches]
           ELSE [outcome |-> "true", links |-> links.table,
                 custom |-> custom.table, patches |-> patches]

\* One call of check_legacy_uniquenick (as /stats player makes it).
CheckLegacy ==
    /\ \E uniquenick \in NickInputs :
        LET db == [legacy |-> legacy_stats, links |-> user_links,
                   custom |-> profile_custom, patches |-> player_patches]
            r == check_legacy_uniquenick(db, uniquenick)
        IN /\ user_links' = r.links
           /\ profile_custom' = r.custom
           /\ player_patches' = r.patches
           /\ legacy_call' =
                Some([uniquenick |-> uniquenick, outcome |-> r.outcome,
                      before |-> [links |-> user_links,
                                  custom |-> profile_custom,
                                  patches |-> player_patches],
                      repeated |-> /\ ~IsNone(legacy_call)
                                   /\ Val(legacy_call).uniquenick = uniquenick])
           /\ last_op' = [op |-> "check_legacy", outcome |-> r.outcome]
    /\ prev_data' = server_data
    /\ calls' = <<>>
    /\ tick_log' = None
    /\ last_query' = None
    /\ last_cmd' = None
    /\ UNCHANGED legacy_stats
    /\ UNCHANGED <<loopVars, nickVars, mapVars, splitVars, histVars, lfgVars>>

\* The bot with a LegacyStats table of the old player records.
InitLegacy ==
    /\ InitBot
    /\ config_interval = 5
    /\ today = 0
    /\ rank_in = <<>>
    /\ rank_out = <<>>
    /\ split_in = <<>>
    /\ split_out = None
    /\ legacy_stats \in [Names -> {None} \cup { Some(row) : row \in LegacyRows }]

NextLegacy == CheckLegacy

SpecLegacy == InitLegacy /\ [][NextLegacy]_vars

-----------------------------------------------------------------------------
(* Ribbons: CogServerStatus.player *)

\* Mutation of Ribbons: of the ribbons of a counter only the highest one
\* that is earned is shown.
Ribbons_OnlyHighest(row) ==
    LET total_games == row.cq_games + row.cf_games
    IN   (IF total_games >= 50 /\ total_games < 250 THEN {"50 Games"} ELSE {})
    \cup (IF total_games >= 250 /\ total_games < 500 THEN {"250 Games"} ELSE {})
    \cup (IF total_games >= 500 THEN {"500 Games"} ELSE {})
    \cup (IF row.wins >= 5 /\ row.wins < 20 THEN {"5 Victories"} ELSE {})
    \cup (IF row.wins >= 20 /\ row.wins < 50 THEN {"20 Victories"} ELSE {})
    \cup (IF row.wins >= 50 THEN {"50 Victories"} ELSE {})
    \cup (IF row.top_player >= 5 /\ row.top_player < 20
          THEN {"5 Top Player"} ELSE {})
    \cup (IF row.top_player >= 20 THEN {"20 Top Player"} ELSE {})

\* player: the ribbons shown for a record
Ribbons(row) ==
    LET total_games == row.cq_games + row.cf_games
    IN   (IF total_games >= 50 THEN {"50 Games"} ELSE {})
    \cup (IF total_games >= 250 THEN {"250 Games"} ELSE {})
    \cup (IF total_games >= 500 THEN {"500 Games"} ELSE {})
    \cup (IF row.wins >= 5 THEN {"5 Victories"} ELSE {})
    \cup (IF row.wins >= 20 THEN {"20 Victories"} ELSE {})
    \cup (IF row.wins >= 50 THEN {"50 Victories"} ELSE {})
    \cup (IF row.top_player >= 5 THEN {"5 Top Player"} ELSE {})
    \cup (IF row.top_player >= 20 THEN {"20 Top Player"} ELSE {})

\* The record of "a" after games conquest matches for the US, wins of them
\* won, the others lost, and top of them as the top player.
Veteran(games, wins, top) ==
    MakeRow(1, "a", 0,
        [ZeroStats EXCEPT !.score = 2 * games, !.deaths = games,
                          !.us_games = games, !.cq_games = games,
                          !.wins = wins, !.losses = games - wins,
                          !.top_player = top])

\* Tables with a record one match short of ribbons.
RibbonTables ==
    { <<Veteran(49, 4, 4)>>, <<Veteran(249, 19, 19)>>, <<Veteran(499, 49, 19)>> }

InitRibbon ==
    /\ \E table \in RibbonTables : InitOver(table)
    /\ config_interval = 5
    /\ today = 0
    /\ rank_in = <<>>
    /\ rank_out = <<>>
    /\ split_in = <<>>
    /\ split_out = None
    /\ legacy_stats = [n \in Names |-> None]

\* The aggregator fed with finished matches, on the records of veterans.
SpecRibbon == InitRibbon /\ [][NextAgg]_vars

-----------------------------------------------------------------------------
(* The bot: the polling loop and the commands *)

Next ==
    \/ OnReady
    \/ StatusLoop
    \/ ReloadConfig

\* The polling loop, with the config file reloaded at any time.
InitLoop == Init /\ today = 0

Spec == InitLoop /\ [][Next]_vars

NextCmd ==
    \/ OnReady
    \/ StatusLoop
    \/ Blacklist

\* The polling loop and the commands, under one config.
InitCmd == Init /\ today = 0 /\ config_interval = 5

SpecCmd == InitCmd /\ [][NextCmd]_vars

\* The polling loop and the blacklist command on a table that holds the
\* records of "a" and "b".
SpecKeep == InitNick /\ [][NextCmd]_vars

-----------------------------------------------------------------------------
(* The LFG queue and the LFG matcher *)

\* the fullest public server of a gamemode has up to this many players
MaxPopulation == 2

\* The minimum player thresholds a user can ask for.
Minimums == 2..(MaxPopulation + 1)

\* The positions of a requester's entries in the queue.
LfgIndex(queue, uid) == { i \in 1..Len(queue) : queue[i].requester = uid }

\* Mutation of LfgUpsert: every opt-in adds an entry.
LfgUpsert_AlwaysAppend(queue, uid, gamemode, minimum) ==
    Append(queue, [requester |-> uid, gamemode |-> gamemode, minimum |-> minimum])

\* The queue after an opt-in: the requester's entry is created, or updated
\* in place when there is one.
LfgUpsert(queue, uid, gamemode, minimum) ==
    IF LfgIndex(queue, uid) = {}
    THEN Append(queue, [requester |-> uid, gamemode |-> gamemode, minimum |-> minimum])
    ELSE [ i \in 1..Len(queue) |->
            IF queue[i].requester = uid
            THEN [queue[i] EXCEPT !.gamemode = gamemode, !.minimum = minimum]
            ELSE queue[i] ]

\* The queue without the entries of the given requesters.
RECURSIVE LfgRemove(_, _)
LfgRemove(queue, uids) ==
    IF queue = <<>> THEN <<>>
    ELSE IF Head(queue).requester \in uids
         THEN LfgRemove(Tail(queue), uids)
         ELSE <<Head(queue)>> \o LfgRemove(Tail(queue), uids)

\* The "theoretical" count of a waiting user: the other waiting users of
\* the same gamemode whose minimum is at most this user's minimum.
Theoretical(queue, i) ==
    Cardinality({ j \in 1..Len(queue) :
        /\ j # i
        /\ queue[j].gamemode = queue[i].gamemode
        /\ queue[j].minimum <= queue[i].minimum })

\* The waiting users the matcher notifies: population is, by gamemode, the
\* player count of the public server with the most players.
LfgMatched(queue, population) ==
    { queue[i].requester : i \in
        { j \in 1..Len(queue) :
            population[queue[j].gamemode] + Theoretical(queue, j)
                >= queue[j].minimum } }

\* A user opts in with a gamemode and a minimum threshold.
LfgOptIn ==
    /\ \E uid \in Users, gamemode \in GameTypes, minimum \in Minimums :
        /\ lfg_queue' = LfgUpsert(lfg_queue, uid, gamemode, minimum)
        /\ last_cmd' = Some([uid |-> uid, gamemode |-> gamemode,
                             minimum |-> minimum])
        /\ last_op' = [op |-> "lfg_optin",
                       outcome |-> IF LfgIndex(lfg_queue, uid) = {}
                                   THEN "created" ELSE "updated"]
    /\ prev_data' = server_data
    /\ calls' = <<>>
    /\ tick_log' = None
    /\ last_query' = None
    /\ UNCHANGED <<loopVars, nickVars, mapVars, splitVars, histVars, legacyVars>>

\* A user opts out.
LfgOptOut ==
    /\ \E uid \in Users :
        /\ lfg_queue' = LfgRemove(lfg_queue, {uid})
        /\ last_cmd' = Some([uid |-> uid])
        /\ last_op' = [op |-> "lfg_optout",
                       outcome |-> IF LfgIndex(lfg_queue, uid) = {}
                                   THEN "absent" ELSE "removed"]
    /\ prev_data' = server_data
    /\ calls' = <<>>
    /\ tick_log' = None
    /\ last_query' = None
    /\ UNCHANGED <<loopVars, nickVars, mapVars, splitVars, histVars, legacyVars>>

\* The matcher runs on a snapshot: every matched user whose direct message
\* goes through is notified and removed.
LfgMatch ==
    /\ \E population \in [GameTypes -> 0..MaxPopulation], reachable \in SUBSET Users :
        LET notified == LfgMatched(lfg_queue, population) \cap reachable
        IN /\ lfg_queue' = LfgRemove(lfg_queue, notified)
           /\ last_cmd' = Some([population |-> population, notified |-> notified])
           /\ last_op' = [op |-> "lfg_match",
                          outcome |-> IF notified = {} THEN "none" ELSE "notified"]
    /\ prev_data' = server_data
    /\ calls' = <<>>
    /\ tick_log' = None
    /\ last_query' = None
    /\ UNCHANGED <<loopVars, nickVars, mapVars, splitVars, histVars, legacyVars>>

NextLfg ==
    \/ LfgOptIn
    \/ LfgOptOut
    \/ LfgMatch

SpecLfg == InitCmd /\ [][NextLfg]_vars

-----------------------------------------------------------------------------
(* Properties of the match-end detection *)

\* The last handler was a tick that ran to its end.
TickOk == last_op = [op |-> "tick", outcome |-> "ok"]

\* The server entries the tick found in self.server_data, and those it fetched.
PrevResults == IF IsNone(prev_data) THEN <<>> ELSE Val(prev_data).results
NewResults == IF IsNone(server_data) THEN <<>> ELSE Val(server_data).results

\* How many times the tick handed the entry e to record_player_stats.
Handed(e) == Cardinality({ k \in 1..Len(calls) : calls[k].match = e })

\* "HH:MM:SS" t is strictly earlier than u, field by field.
TimeLower(t, u) ==
    \/ t[1] < u[1]
    \/ t[1] = u[1] /\ t[2] < u[2]
    \/ t[1] = u[1] /\ t[2] = u[2] /\ t[3] < u[3]

\* The entry e has no server of its id among the new results.
Absent(e) == \A j \in 1..Len(NewResults) : NewResults[j].id # e.id

\* C1: in every tick, for each server id of both the previous and the new
\* snapshot, the previous entry is handed to record_player_stats if and only
\* if the new elapsed time is strictly lower than the previous one.
C1_HandedIffTimeLower ==
    TickOk =>
        \A i \in 1..Len(PrevResults), j \in 1..Len(NewResults) :
            PrevResults[i].id = NewResults[j].id =>
                (Handed(PrevResults[i]) > 0
                 <=> TimeLower(NewResults[j].time_elapsed,
                               PrevResults[i].time_elapsed))

\* A tick saw the elapsed time of a server drop and handed its previous entry
\* over, while another server's time did not drop and nothing was handed over
\* for it.
C1_Witness ==
    /\ TickOk
    /\ \E i \in 1..Len(PrevResults), j \in 1..Len(NewResults) :
        /\ PrevResults[i].id = NewResults[j].id
        /\ TimeLower(NewResults[j].time_elapsed, PrevResults[i].time_elapsed)
        /\ Handed(PrevResults[i]) = 1
    /\ \E i \in 1..Len(PrevResults), j \in 1..Len(NewResults) :
        /\ PrevResults[i].id = NewResults[j].id
        /\ PrevResults[i].time_elapsed = NewResults[j].time_elapsed
        /\ Handed(PrevResults[i]) = 0

\* C2: a server of the previous snapshot that is absent from the new one has
\* its last entry handed to record_player_stats exactly once in that tick, and
\* a tick records nothing for a server that its previous snapshot does not
\* hold (so nothing more while the server stays absent).
C2_OfflineHandedOnce ==
    TickOk =>
        /\ \A i \in 1..Len(PrevResults) :
            Absent(PrevResults[i]) => Handed(PrevResults[i]) = 1
        /\ \A k \in 1..Len(calls) :
            \E i \in 1..Len(PrevResults) : calls[k].match = PrevResults[i]

\* A tick found a server gone and recorded its last entry: the table changed.
C2_Witness ==
    /\ TickOk
    /\ \E i \in 1..Len(PrevResults) :
        /\ Absent(PrevResults[i])
        /\ Handed(PrevResults[i]) = 1
        /\ \E k \in 1..Len(calls) :
            /\ calls[k].match = PrevResults[i]
            /\ calls[k].after # calls[k].before

\* C6 (as stated): a finished match with fewer players than MatchMinPlayers
\* changes no player record.
C6_SmallMatchDiscarded ==
    TickOk =>
        \A k \in 1..Len(calls) :
            Len(calls[k].match.players) < MatchMinPlayers
                => calls[k].after = calls[k].before

\* A row of the blacklist holds the nickname.
OnBlacklist(nickname) ==
    \E i \in 1..Len(player_blacklist) : player_blacklist[i].nickname = nickname

\* C7 (as stated): a finished match neither changes the stats of a nickname
\* that is on the blacklist nor creates a record for it.
C7_BlacklistedUntouched ==
    TickOk =>
        \A k \in 1..Len(calls) :
            \A i \in 1..Len(calls[k].match.players) :
                LET n == calls[k].match.players[i].name
                IN OnBlacklist(n)
                    => GetOne(calls[k].after, n) = GetOne(calls[k].before, n)

-----------------------------------------------------------------------------
(* Properties of the aggregator *)

\* The rows of the table with the nickname.
RowsOf(table, n) == { j \in 1..Len(table) : table[j].nickname = n }

\* The value of column f for the nickname, 0 without a row.
FieldOf(table, n, f) ==
    IF RowsOf(table, n) = {} THEN 0
    ELSE table[CHOOSE j \in RowsOf(table, n) : TRUE][f]

\* The sum of field f of the players named n in the list players[1..k].
RECURSIVE ListSum(_, _, _, _)
ListSum(players, k, n, f) ==
    IF k = 0 THEN 0
    ELSE ListSum(players, k - 1, n, f)
         + (IF players[k].name = n THEN players[k][f] ELSE 0)

\* The sum of field f of the players named n over the matches history[1..k].
RECURSIVE MatchSum(_, _, _)
MatchSum(k, n, f) ==
    IF k = 0 THEN 0
    ELSE MatchSum(k - 1, n, f)
         + ListSum(history[k].match.players, Len(history[k].match.players), n, f)

\* The score and deaths the table holds for the nickname.
Totals(table, n) ==
    { <<table[j].score, table[j].deaths>> : j \in RowsOf(table, n) }

\* C3: for every nickname the stored score and deaths are the sums of the
\* player's values over the matches recorded, and recording the last two
\* matches in the other order gives the same totals (any reordering is a
\* product of such swaps).
C3_TotalsAreSums ==
    /\ \A n \in Names :
        \A j \in RowsOf(player_stats, n) :
            /\ player_stats[j].score = MatchSum(Len(history), n, "score")
            /\ player_stats[j].deaths = MatchSum(Len(history), n, "deaths")
    /\ \A k \in { x \in {Len(history) - 1} : x > 0 } :
        LET swapped ==
                record_player_stats(
                    record_player_stats(history[k].before,
                                        history[k + 1].match, today),
                    history[k].match, today)
        IN \A n \in Names :
            Totals(swapped, n) = Totals(history[k + 1].after, n)

\* Two different matches with the same player were recorded, and the player's
\* row holds the sum of both scores and of both deaths.
C3_Witness ==
    /\ Len(history) = 2
    /\ history[1].match # history[2].match
    /\ \E j \in RowsOf(player_stats, "a") :
        /\ player_stats[j].score = 4
        /\ player_stats[j].deaths = 1
        /\ ListSum(history[1].match.players, Len(history[1].match.players),
                   "a", "deaths") = 0

\* The score of the player's team, and of the other team, in the match.
OwnScore(p, m) == IF p.team = 0 THEN m.team1_score ELSE m.team2_score
OtherScore(p, m) == IF p.team = 0 THEN m.team2_score ELSE m.team1_score

\* C4: every player of a recorded match gets wins + 1 and the same losses
\* when the player's team score is higher, losses + 1 and the same wins when
\* it is lower, and the same wins and losses on a draw.
C4_WinsLossesExclusive ==
    \A k \in { x \in {Len(history)} : x > 0 } :
        LET c == history[k]
        IN \A i \in 1..Len(c.match.players) :
            LET p == c.match.players[i]
                w0 == FieldOf(c.before, p.name, "wins")
                w1 == FieldOf(c.after, p.name, "wins")
                l0 == FieldOf(c.before, p.name, "losses")
                l1 == FieldOf(c.after, p.name, "losses")
            IN /\ OwnScore(p, c.match) > OtherScore(p, c.match)
                    => w1 = w0 + 1 /\ l1 = l0
               /\ OwnScore(p, c.match) < OtherScore(p, c.match)
                    => l1 = l0 + 1 /\ w1 = w0
               /\ OwnScore(p, c.match) = OtherScore(p, c.match)
                    => w1 = w0 /\ l1 = l0

\* A player with a record played on the second team of a match that team
\* lost, and got a loss; in another match a player drew.
C4_Witness ==
    /\ Len(history) = 2
    /\ \E i \in 1..Len(history[2].match.players) :
        LET p == history[2].match.players[i]
        IN /\ p.team = 1
           /\ OwnScore(p, history[2].match) < OtherScore(p, history[2].match)
           /\ RowsOf(history[2].before, p.name) # {}
           /\ FieldOf(history[2].after, p.name, "losses")
                = FieldOf(history[2].before, p.name, "losses") + 1
    /\ \E i \in 1..Len(history[1].match.players) :
        LET p == history[1].match.players[i]
        IN OwnScore(p, history[1].match) = OtherScore(p, history[1].match)

\* C5 (as stated): a player listed with score 0 and deaths 0 has no column of
\* the record changed by the match, and gets no record if there was none.
C5_NonParticipantUntouched ==
    \A k \in { x \in {Len(history)} : x > 0 } :
        LET c == history[k]
        IN \A i \in 1..Len(c.match.players) :
            LET p == c.match.players[i]
            IN p.score = 0 /\ p.deaths = 0
                => GetOne(c.after, p.name) = GetOne(c.before, p.name)

\* The nicknames of a match that have no row in the table.
NewNames(table, m) ==
    { m.players[i].name : i \in { j \in 1..Len(m.players) :
                                    RowsOf(table, m.players[j].name) = {} } }

\* C8: recording a match creates exactly one row for a player who had none:
\* score and deaths are the match's values, the counter of the country of the
\* player's side is 1 and the other three 0, the counter of the gamemode is 1
\* and the other 0, wins and losses are those of the outcome, first_seen is
\* the current date.
C8_NewPlayerRow ==
    \A k \in { x \in {Len(history)} : x > 0 } :
        LET c == history[k]
            m == c.match
        IN /\ Len(c.after) = Len(c.before) + Cardinality(NewNames(c.before, m))
           /\ \A i \in 1..Len(m.players) :
                LET p == m.players[i]
                    side == IF p.team = 0 THEN m.team1_country
                            ELSE m.team2_country
                IN RowsOf(c.before, p.name) = {} =>
                    /\ Cardinality(RowsOf(c.after, p.name)) = 1
                    /\ \A j \in RowsOf(c.after, p.name) :
                        LET r == c.after[j]
                        IN /\ r.score = p.score
                           /\ r.deaths = p.deaths
                           /\ r.us_games = (IF side = "US" THEN 1 ELSE 0)
                           /\ r.ch_games = (IF side = "CH" THEN 1 ELSE 0)
                           /\ r.ac_games = (IF side = "AC" THEN 1 ELSE 0)
                           /\ r.eu_games = (IF side = "EU" THEN 1 ELSE 0)
                           /\ r.cf_games = (IF m.game_type = "capturetheflag"
                                            THEN 1 ELSE 0)
                           /\ r.cq_games = (IF m.game_type = "conquest"
                                            THEN 1 ELSE 0)
                           /\ r.wins = (IF OwnScore(p, m) > OtherScore(p, m)
                                        THEN 1 ELSE 0)
                           /\ r.losses = (IF OwnScore(p, m) < OtherScore(p, m)
                                          THEN 1 ELSE 0)
                           /\ r.first_seen = today

\* On a later day, a conquest match the US side lost is recorded while the
\* table already has a row: the US player, new to the table, gets the second
\* row with us_games, cq_games and losses at 1.
C8_Witness ==
    /\ today = 1
    /\ Len(history) = 2
    /\ Len(history[2].before) = 1
    /\ Len(player_stats) = 2
    /\ history[2].match.game_type = "conquest"
    /\ player_stats[2].first_seen = 1
    /\ player_stats[2].score = 2 /\ player_stats[2].deaths = 1
    /\ player_stats[2].us_games = 1 /\ player_stats[2].cq_games = 1
    /\ player_stats[2].losses = 1 /\ player_stats[2].wins = 0

\* Player p has the highest score of the list and the fewest deaths among the
\* players with that score.
IsTopScorer(p, players) ==
    \A i \in 1..Len(players) :
        /\ players[i].score <= p.score
        /\ players[i].score = p.score => p.deaths <= players[i].deaths

\* C9: in a recorded match with players, exactly one player gets top_player
\* + 1, that player is a top scorer of the match (highest score, fewest
\* deaths among the highest), and every other top_player stays as it was.
C9_TopPlayerOnce ==
    \A k \in { x \in {Len(history)} : x > 0 } :
        LET c == history[k]
            ps == c.match.players
            d(n) == FieldOf(c.after, n, "top_player")
                    - FieldOf(c.before, n, "top_player")
            inc == { i \in 1..Len(ps) : d(ps[i].name) = 1 }
        IN /\ ps # <<>> => Cardinality(inc) = 1
           /\ \A i \in inc : IsTopScorer(ps[i], ps)
           /\ \A i \in 1..Len(ps) : i \notin inc => d(ps[i].name) = 0
           /\ \A n \in Names :
                (\A i \in 1..Len(ps) : ps[i].name # n) => d(n) = 0

\* Two players tied on score; the second of the list died less and got the
\* increment, the first did not.
C9_Witness ==
    /\ Len(history) = 1
    /\ LET c == history[1]
           ps == c.match.players
       IN /\ Len(ps) = 2
          /\ ps[1].score = ps[2].score
          /\ ps[2].deaths < ps[1].deaths
          /\ FieldOf(c.after, ps[2].name, "top_player") = 1
          /\ FieldOf(c.after, ps[1].name, "top_player") = 0

-----------------------------------------------------------------------------
(* Properties of the rank lookup *)

\* C10: for scores a <= b that both get a rank, the position in RANK_DATA of
\* the rank of b is at least that of the rank of a.
C10_RankMonotonic ==
    (/\ rank_out # <<>>
     /\ rank_in[1] <= rank_in[2]
     /\ ~IsNone(rank_out[1])
     /\ ~IsNone(rank_out[2]))
        => Val(rank_out[1]) <= Val(rank_out[2])

\* Two scores on the two sides of a threshold got consecutive ranks.
C10_Witness ==
    /\ rank_out # <<>>
    /\ rank_in[1] + 1 = rank_in[2]
    /\ ~IsNone(rank_out[1])
    /\ ~IsNone(rank_out[2])
    /\ Val(rank_out[1]) + 1 = Val(rank_out[2])

\* The highest tier of RANK_DATA whose lower threshold is at most the score,
\* 0 without one.
HighestTier(score) ==
    LET met == { i \in 1..Len(RANK_DATA) : RANK_DATA[i].lo <= score }
    IN IF met = {} THEN 0 ELSE CHOOSE i \in met : \A j \in met : j <= i

\* C11 (as stated): for every score, exactly one range of RANK_DATA holds it
\* and get_rank_data returns the highest tier whose lower threshold is at most
\* the score; the lookup never returns nothing.
C11_RankTotal ==
    rank_out # <<>> =>
        \A i \in {1, 2} :
            /\ Cardinality({ j \in 1..Len(RANK_DATA) :
                                InRange(RANK_DATA[j], rank_in[i]) }) = 1
            /\ ~IsNone(rank_out[i])
            /\ Val(rank_out[i]) = HighestTier(rank_in[i])

-----------------------------------------------------------------------------
(* Properties of the query and of a tick without an answer *)

\* C12 (as stated): query_api returns the snapshot when the request succeeds
\* with status 200 and None for every failure; it never raises.
C12_QueryNeverRaises ==
    ~IsNone(last_query) =>
        LET q == Val(last_query)
        IN /\ ~q.result.raised
           /\ q.result.value = q.response.body

\* C13 (as stated): a tick whose query returns None ends without raising,
\* records nothing, changes no player record and leaves the loop running.
C13_UnavailableNotFatal ==
    (/\ ~IsNone(last_query)
     /\ ~Val(last_query).result.raised
     /\ IsNone(Val(last_query).result.value))
        => /\ last_op = [op |-> "tick", outcome |-> "ok"]
           /\ calls = <<>>
           /\ loop_state = "running"

-----------------------------------------------------------------------------
(* Properties of the nickname commands *)

\* C14 (as stated): whenever a claim writes dis_uid of a row, at that moment
\* the row exists and has no owner and the claiming user owns no row.
C14_ClaimWriteChecked ==
    [][\A id \in RowIds :
        dis_uid'[id] # dis_uid[id] =>
            /\ id <= Len(player_stats)
            /\ IsNone(dis_uid[id])
            /\ \A other \in RowIds : dis_uid[other] # dis_uid'[id]]_vars

\* The rows of player_stats with the nickname that the user owns.
OwnedRows(nickname, uid) ==
    { id \in 1..Len(player_stats) :
        player_stats[id].nickname = nickname /\ dis_uid[id] = Some(uid) }

\* C19: color stores the color for the nickname only when the nickname has a
\* row whose dis_uid is the caller; otherwise no stored color changes and the
\* caller gets the warning; no other command changes a color.
C19_ColorOnlyByOwner ==
    [][/\ color' # color => last_op'.op = "color"
       /\ last_op'.op = "color" =>
            LET c == Val(last_cmd')
                owned == OwnedRows(c.nickname, c.uid)
            IN IF owned # {}
               THEN /\ \A id \in owned : color'[id] = Some(c.rgb)
                    /\ \A id \in RowIds \ owned : color'[id] = color[id]
                    /\ last_op'.outcome = "ok"
               ELSE /\ color' = color
                    /\ last_op'.outcome = "warning"]_vars

\* The owner of a nickname recolored it, and the other nickname, with another
\* owner, kept its color.
C19_Witness ==
    /\ last_op = [op |-> "color", outcome |-> "ok"]
    /\ Val(last_cmd).uid = "u2"
    /\ Val(last_cmd).nickname = "b"
    /\ dis_uid = [id \in RowIds |-> IF id = 1 THEN Some("u1") ELSE Some("u2")]
    /\ color = [id \in RowIds |-> IF id = 1 THEN Some(<<0, 0, 0>>)
                                  ELSE Some(<<255, 128, 0>>)]

\* C20: assign and blacklist called without Manage Channels leave dis_uid and
\* the blacklist as they were and answer with the permission warning.
C20_DeniedChangesNothing ==
    [][(/\ last_op'.op \in {"assign", "blacklist"}
        /\ ~Val(last_cmd').manage_channels)
            => /\ dis_uid' = dis_uid
               /\ player_blacklist' = player_blacklist
               /\ last_op'.outcome = "denied"]_vars

\* A caller without the permission tried to assign an owned nickname to
\* another member while the blacklist held a nickname: the owner stayed.
C20_Witness ==
    /\ last_op = [op |-> "assign", outcome |-> "denied"]
    /\ Val(last_cmd).nickname = "a"
    /\ Val(last_cmd).member = "u2"
    /\ dis_uid[1] = Some("u1")
    /\ player_blacklist # <<>>

-----------------------------------------------------------------------------
(* Properties of the map statistics *)

\* The counter of a map and a gamemode in a map_stats table, 0 without a row.
MapCounter(table, map_id, gamemode) ==
    LET hits == { i \in 1..Len(table) : table[i].map_id = map_id }
    IN IF hits = {} THEN 0 ELSE table[CHOOSE i \in hits : TRUE][gamemode]

\* The map ids with a row in a map_stats table.
MapIds(table) == { table[i].map_id : i \in 1..Len(table) }

\* From the table before to the table after, the counter of the played map
\* and gamemode went up by exactly 1, the map has exactly one row, and
\* every other counter is as it was.
MapCounted(before, after, entry) ==
    LET map_id == MAP_DATA[entry.mapName][2]
        played == IF entry.gameType = "capturetheflag"
                  THEN "capturetheflag" ELSE "conquest"
    IN /\ Cardinality({ i \in 1..Len(after) : after[i].map_id = map_id }) = 1
       /\ MapIds(after) = MapIds(before) \cup {map_id}
       /\ \A id \in MapIds(after), gamemode \in GameTypes :
            MapCounter(after, id, gamemode) =
                MapCounter(before, id, gamemode)
                + (IF id = map_id /\ gamemode = played THEN 1 ELSE 0)

-----------------------------------------------------------------------------
(* Properties of split_list *)

\* The chunks of a list of chunks, one after the other.
RECURSIVE Concat(_)
Concat(chunks) ==
    IF chunks = <<>> THEN <<>> ELSE Head(chunks) \o Concat(Tail(chunks))

\* C16: for chunk_size > 0 the chunks of split_list, one after the other,
\* are lst; every chunk but the last has exactly chunk_size elements, the
\* last has between 1 and chunk_size, no chunk is empty and an empty lst
\* gives no chunks. For chunk_size <= 0 the result is the single chunk lst.
C16_SplitListChunks ==
    ~IsNone(split_out) =>
        LET lst == split_in[1]
            chunk_size == split_in[2]
            result == Val(split_out)
        IN IF chunk_size > 0
           THEN /\ Concat(result) = lst
                /\ \A k \in 1..(Len(result) - 1) : Len(result[k]) = chunk_size
                /\ \A k \in 1..Len(result) :
                        Len(result[k]) >= 1 /\ Len(result[k]) <= chunk_size
                /\ lst = <<>> => result = <<>>
           ELSE result = <<lst>>

\* A list was split into full chunks and a shorter last one.
C16_Witness ==
    /\ ~IsNone(split_out)
    /\ split_in[2] > 1
    /\ Len(Val(split_out)) > 1
    /\ Len(Val(split_out)[Len(Val(split_out))]) < split_in[2]

-----------------------------------------------------------------------------
(* Properties of the rolling match-outcome history *)

\* The history h with one more outcome, first in first out: the entries
\* stay in order, and a history of the fixed length loses its oldest entry.
FifoPush(h, after) ==
    \E letter \in Letters :
        after = (IF Len(h) = HistoryLen THEN Tail(h) ELSE h) \o <<letter>>

\* C17: after any sequence of recorded matches a player's rolling history
\* holds at most its fixed length of W/L/D entries, and an outcome appended
\* to a full history drops the oldest entry.
C17_HistoryRolls ==
    /\ [](\A n \in Names :
            /\ Len(match_history[n]) <= HistoryLen
            /\ \A k \in 1..Len(match_history[n]) : match_history[n][k] \in Letters)
    /\ [][\A n \in Names :
            outcomes'[n] = outcomes[n] + 1 =>
                FifoPush(match_history[n], match_history'[n])]_vars

\* A player with more outcomes recorded than the history holds: the
\* history is full and has dropped an entry.
C17_Witness ==
    \E n \in Names :
        /\ outcomes[n] > HistoryLen
        /\ Len(match_history[n]) = HistoryLen

-----------------------------------------------------------------------------
(* Properties of the LFG queue *)

\* The entries of the queue that are not the requester's, in order.
LfgOthers(queue, uids) ==
    SelectSeq(queue, LAMBDA e : e.requester \notin uids)

\* C18: after any sequence of opt-ins, repeated opt-ins, opt-outs and
\* successful notifications the LFG queue holds at most one entry per
\* requester: an opt-in creates it, a repeated opt-in updates its gamemode
\* and minimum in place without adding a second one, and an opt-out or a
\* successful notification removes it.
C18_OneEntryPerRequester ==
    /\ [](\A uid \in Users : Cardinality(LfgIndex(lfg_queue, uid)) <= 1)
    /\ [][/\ last_op'.op = "lfg_optin" =>
                LET c == Val(last_cmd')
                    entry == [requester |-> c.uid, gamemode |-> c.gamemode,
                              minimum |-> c.minimum]
                IN IF LfgIndex(lfg_queue, c.uid) = {}
                   THEN lfg_queue' = Append(lfg_queue, entry)
                   ELSE /\ Len(lfg_queue') = Len(lfg_queue)
                        /\ \A i \in 1..Len(lfg_queue) :
                            lfg_queue'[i] =
                                IF i \in LfgIndex(lfg_queue, c.uid)
                                THEN entry ELSE lfg_queue[i]
          /\ last_op'.op = "lfg_optout" =>
                /\ LfgIndex(lfg_queue', Val(last_cmd').uid) = {}
                /\ lfg_queue' = LfgOthers(lfg_queue, {Val(last_cmd').uid})
          /\ last_op'.op = "lfg_match" =>
                /\ \A uid \in Val(last_cmd').notified :
                        LfgIndex(lfg_queue', uid) = {}
                /\ lfg_queue' = LfgOthers(lfg_queue, Val(last_cmd').notified)
       ]_vars

\* A user who was waiting opted in again, with another user waiting too.
C18_Witness ==
    /\ last_op = [op |-> "lfg_optin", outcome |-> "updated"]
    /\ Len(lfg_queue) = Cardinality(Users)

-----------------------------------------------------------------------------
(* Properties of the player records over the bot's operations *)

\* The record at each position of the table before is the record of the
\* same id, nickname and first_seen date in the table after.
RecordsKept(before, after) ==
    /\ Len(after) >= Len(before)
    /\ \A i \in 1..Len(before) :
        /\ after[i].id = before[i].id
        /\ after[i].nickname = before[i].nickname
        /\ after[i].first_seen = before[i].first_seen

\* C21: a player record, once created, exists in every later state: no
\* polling tick and no command deletes one, and blacklist Add and Remove
\* leave the stat fields of every record as they are.
C21_RecordsNeverDeleted ==
    [][/\ RecordsKept(player_stats, player_stats')
       /\ last_op'.op = "blacklist" => player_stats' = player_stats]_vars

\* A nickname with a record was taken off the blacklist it had been put on
\* after a tick added a match to the record.
C21_Witness ==
    /\ last_op = [op |-> "blacklist", outcome |-> "removed"]
    /\ ~IsNone(GetOne(player_stats, Val(last_cmd).nickname))
    /\ Played(player_stats) > 1

-----------------------------------------------------------------------------
(* Properties of the polling loop over several ticks *)

\* The last handler was a tick.
Tick == last_op.op = "tick"

\* The snapshot the last tick fetched (its query returned one).
Fetched == Val(last_query).result.value

\* C22: across the ticks each server entry of each fetched snapshot is
\* handed to record_player_stats at most once, so that the match it reports
\* is added to the totals once. A fetched snapshot is held for one
\* comparison only: the tick that examines the held snapshot hands each of
\* its entries at most once, applies the calls one after the other to the
\* table, and replaces the held snapshot by the one it fetched; a tick that
\* does not run to its end hands over nothing.
C22_EntryHandedAtMostOnce ==
    /\ TickOk =>
        /\ \A i \in 1..Len(PrevResults) : Handed(PrevResults[i]) <= 1
        /\ \A k \in 1..Len(calls) :
            \E i \in 1..Len(PrevResults) : calls[k].match = PrevResults[i]
        /\ \A k \in 1..(Len(calls) - 1) : calls[k + 1].before = calls[k].after
        /\ calls # <<>> => player_stats = calls[Len(calls)].after
        /\ server_data = Fetched
    /\ (Tick /\ ~TickOk) => calls = <<>>

\* A tick examined a snapshot of two servers and handed both entries over,
\* each once.
C22_Witness ==
    /\ TickOk
    /\ Len(PrevResults) = 2
    /\ Len(calls) = 2
    /\ \A i \in 1..2 : Handed(PrevResults[i]) = 1

\* The j-th server of the new snapshot is not in the previous one.
NewOnly(j) == \A i \in 1..Len(PrevResults) : PrevResults[i].id # NewResults[j].id

\* C23: a tick with no previous snapshot (the first one) records nothing,
\* and in any tick a server of the new snapshot that the previous one does
\* not hold causes no call of record_player_stats, whatever its elapsed
\* time.
C23_NewServerNotRecorded ==
    TickOk =>
        /\ IsNone(prev_data) => calls = <<>>
        /\ \A j \in 1..Len(NewResults) :
            NewOnly(j) =>
                \A k \in 1..Len(calls) : calls[k].match.id # NewResults[j].id

\* A tick with a previous snapshot met a server that the previous snapshot
\* did not hold, and recorded the finished match of another server.
C23_Witness ==
    /\ TickOk
    /\ ~IsNone(prev_data)
    /\ \E j \in 1..Len(NewResults) : NewOnly(j)
    /\ Len(calls) = 1

-----------------------------------------------------------------------------
(* Properties of the counters of a player record *)

\* The matches a record counts by team country, and by gamemode.
TeamGames(row) == row.us_games + row.ch_games + row.ac_games + row.eu_games
ModeGames(row) == row.cq_games + row.cf_games

\* C24: in every reachable state every player record has
\* us_games + ch_games + ac_games + eu_games = cq_games + cf_games and
\* wins + losses <= cq_games + cf_games; each recorded match adds exactly 1
\* to exactly one team-country counter and to exactly one gamemode counter
\* of each of its players.
C24_CountersAgree ==
    /\ \A i \in 1..Len(player_stats) :
        /\ TeamGames(player_stats[i]) = ModeGames(player_stats[i])
        /\ player_stats[i].wins + player_stats[i].losses
                <= ModeGames(player_stats[i])
    /\ \A k \in 1..Len(calls) :
        \A j \in 1..Len(calls[k].match.players) :
            LET n == calls[k].match.players[j].name
                old == GetOne(calls[k].before, n)
                new == Val(GetOne(calls[k].after, n))
                was == IF IsNone(old) THEN ZeroStats ELSE StatsOf(Val(old))
                up(f) == new[f] - was[f]
            IN /\ \A f \in {"us_games", "ch_games", "ac_games", "eu_games",
                             "cq_games", "cf_games"} : up(f) \in {0, 1}
               /\ up("us_games") + up("ch_games") + up("ac_games")
                    + up("eu_games") = 1
               /\ up("cq_games") + up("cf_games") = 1

\* A record counts a conquest match and a capture-the-flag match, one of
\* them a draw that is neither a win nor a loss.
C24_Witness ==
    \E i \in 1..Len(player_stats) :
        /\ player_stats[i].cq_games > 0
        /\ player_stats[i].cf_games > 0
        /\ player_stats[i].eu_games + player_stats[i].ac_games > 0
        /\ player_stats[i].wins + player_stats[i].losses
                < ModeGames(player_stats[i])

-----------------------------------------------------------------------------
(* Properties of the blacklist *)

\* The rows of a blacklist table with the nickname.
BlacklistRows(table, nickname) ==
    { i \in 1..Len(table) : table[i].nickname = nickname }

\* C25: after any sequence of blacklist Add and Remove commands by admins
\* the blacklist holds at most one entry per nickname. Add on a blacklisted
\* nickname and Remove on one that is not leave the blacklist unchanged,
\* Add on a nickname that is not blacklisted adds exactly one entry, and
\* Remove on a blacklisted nickname leaves no entry for it.
C25_OneEntryPerNickname ==
    /\ [](\A n \in Names :
            Cardinality(BlacklistRows(player_blacklist, n)) <= 1)
    /\ [][(last_op'.op = "blacklist" /\ Val(last_cmd').manage_channels) =>
            LET c == Val(last_cmd')
                listed == BlacklistRows(player_blacklist, c.nickname) # {}
            IN IF c.action = "Add"
               THEN IF listed
                    THEN player_blacklist' = player_blacklist
                    ELSE /\ Len(player_blacklist') = Len(player_blacklist) + 1
                         /\ SubSeq(player_blacklist', 1, Len(player_blacklist))
                                = player_blacklist
                         /\ player_blacklist'[Len(player_blacklist')].nickname
                                = c.nickname
               ELSE IF listed
                    THEN /\ BlacklistRows(player_blacklist', c.nickname) = {}
                         /\ player_blacklist' =
                                SelectSeq(player_blacklist,
                                          LAMBDA e : e.nickname # c.nickname)
                    ELSE player_blacklist' = player_blacklist
         ]_vars

\* An admin added a nickname that was on the blacklist already, next to
\* another blacklisted nickname.
C25_Witness ==
    /\ last_op = [op |-> "blacklist", outcome |-> "already"]
    /\ Val(last_cmd).manage_channels
    /\ Len(player_blacklist) = Cardinality(Names)

-----------------------------------------------------------------------------
(* Properties of check_legacy_uniquenick *)

\* The tables as the last check_legacy_uniquenick call left them.
LegacyTables ==
    [links |-> user_links, custom |-> profile_custom,
     patches |-> player_patches]

\* C26 (as stated): check_legacy_uniquenick returns False and writes
\* nothing when the nickname is unknown, has an owner already or has no
\* legacy data; a second call with no change in between completes without
\* error and leaves DiscordUserLinks, ProfileCustomization and PlayerPatches
\* as the first call left them; each table holds at most one row per
\* profile, and at most one Legacy patch per profile.
C26_LegacyIdempotent ==
    ~IsNone(legacy_call) =>
        LET c == Val(legacy_call)
            profile == PlayerProfile(c.uniquenick)
            guarded == \/ IsNone(profile)
                       \/ ProfileRows(c.before.links, Val(profile)) # {}
                       \/ IsNone(legacy_stats[c.uniquenick])
        IN /\ guarded => (c.outcome = "false" /\ LegacyTables = c.before)
           /\ c.repeated => (c.outcome # "raised" /\ LegacyTables = c.before)
           /\ \A p \in {1, 2} :
                /\ Cardinality(ProfileRows(user_links, p)) <= 1
                /\ Cardinality(ProfileRows(profile_custom, p)) <= 1
                /\ Cardinality(LegacyPatches(player_patches, p)) <= 1

-----------------------------------------------------------------------------
(* Properties of the ribbons *)

\* The ribbons of each counter, from the lowest threshold to the highest.
RibbonLadders ==
    { <<"50 Games", "250 Games", "500 Games">>,
      <<"5 Victories", "20 Victories", "50 Victories">>,
      <<"5 Top Player", "20 Top Player">> }

\* C27: ribbons are never revoked: a ribbon that a player's record shows
\* is shown after every further recorded match, and a ribbon of a higher
\* threshold on a counter comes with every ribbon of a lower threshold on
\* the same counter.
C27_RibbonsNeverRevoked ==
    /\ [](\A i \in 1..Len(player_stats) :
            \A ladder \in RibbonLadders :
                \A k \in 2..Len(ladder) :
                    ladder[k] \in Ribbons(player_stats[i])
                        => ladder[k - 1] \in Ribbons(player_stats[i]))
    /\ [][\A i \in 1..Len(player_stats) :
            /\ i <= Len(player_stats')
            /\ player_stats'[i].nickname = player_stats[i].nickname
            /\ Ribbons(player_stats[i]) \subseteq Ribbons(player_stats'[i])]_vars

\* A recorded match earned a record a ribbon next to the ribbons it had.
C27_Witness ==
    /\ calls # <<>>
    /\ LET before == Ribbons(calls[1].before[1])
           after == Ribbons(player_stats[1])
       IN /\ before # {}
          /\ before \subseteq after
          /\ after # before

-----------------------------------------------------------------------------
(* Properties of the loop interval and of the status channel *)

\* C28: once UpdateIntervalMinutes is changed and the config reloaded, the
\* loop's interval equals the configured value at the end of the next tick
\* that runs to its end; a tick changes the interval only when it differs
\* from the configured value, and leaves it as it is otherwise.
C28_IntervalFollowsConfig ==
    /\ [](TickOk =>
            /\ loop_minutes = config_interval
            /\ ~IsNone(tick_log))
    /\ [][last_op'.op = "tick" =>
            /\ config_interval' = config_interval
            /\ loop_minutes = config_interval => loop_minutes' = loop_minutes
            /\ last_op'.outcome = "ok" =>
                (Val(tick_log').interval_changed
                    <=> loop_minutes' # loop_minutes)]_vars

\* A tick found the interval different from the reloaded configuration and
\* changed it.
C28_Witness ==
    /\ TickOk
    /\ Val(tick_log).interval_changed
    /\ loop_minutes = config_interval


\* C29: however often on_ready fires, it completes without error, and after
\* it the one StatusLoop is running.
C29_RepeatedOnReadyCompletes ==
    last_op.op = "on_ready" =>
        /\ last_op.outcome = "ok"
        /\ loop_state = "running"


\* The name that stands for a status: online with a count above 0, offline
\* with a count of 0, unknown without a snapshot.
NameFor(data) ==
    IF IsNone(data) THEN STATUS_ERROR_STR
    ELSE IF Val(data).count > 0 THEN STATUS_ONLINE_STR
    ELSE STATUS_OFFLINE_STR

\* C30: after a tick that ran to its end the status channel carries the name
\* of the tick's status; a tick renames the channel only when the name of
\* its status is another one than the channel has, so ticks that follow one
\* another with the same status rename it at most once; nothing but a tick
\* renames the channel.
C30_RenameOnlyOnChange ==
    /\ [](TickOk => voice_channel_name = NameFor(server_data))
    /\ [][/\ last_op'.op # "tick" => voice_channel_name' = voice_channel_name
          /\ last_op' = [op |-> "tick", outcome |-> "raised"] =>
                voice_channel_name' = voice_channel_name
          /\ last_op' = [op |-> "tick", outcome |-> "ok"] =>
                /\ Val(tick_log').renamed
                      <=> voice_channel_name # NameFor(server_data')
                /\ Val(tick_log').renamed
                      <=> voice_channel_name' # voice_channel_name]_vars

\* Two ticks in a row met servers: the second found the channel named online
\* by an earlier tick and did not rename it.
C30_Witness ==
    /\ TickOk
    /\ ~IsNone(prev_data)
    /\ NameFor(prev_data) = STATUS_ONLINE_STR
    /\ NameFor(server_data) = STATUS_ONLINE_STR
    /\ ~Val(tick_log).renamed
    /\ voice_channel_name = STATUS_ONLINE_STR

====
